---- MODULE Spec2Model ----
(***************************************************************************)
(* Model of the routing subsystem of jorgenbuilder/adv:                    *)
(*   - the graph loader/cache          (src/lib/router.ts, loadGraph)      *)
(*   - the shortest-path solver        (src/lib/router.ts, dijkstra)       *)
(*   - the multi-waypoint composer     (src/lib/router.ts, calculateRoute) *)
(*   - the route recomputation effect  (src/components/map/RouteLayer.tsx) *)
(*   - the graph builder               (build script, buildGraph)          *)
(*   - the store and the share URL     (src/lib/store.ts, url-state.ts)    *)
(* Each part has its own specification over the shared variables; the      *)
(* variables of the other parts stay at their initial values.              *)
(***************************************************************************)
EXTENDS Integers, Sequences, FiniteSets, TLC

\* ------------------------------------------------------------------------
\* Bounds of the model
\* ------------------------------------------------------------------------
NumCallers == 3
MaxRuns == 4         \* runs of the route effect, the run at mount included
MaxWaypoints == 3    \* waypoint lists have 1..MaxWaypoints positions
MaxWeight == 1       \* edge weights of the explored graphs are 0..MaxWeight
MaxFeatures == 2     \* feature collections have 1..MaxFeatures features
MaxIds == 4          \* generateWaypointId is called at most MaxIds times
MaxStoreWaypoints == 3  \* the store holds at most MaxStoreWaypoints waypoints

\* ------------------------------------------------------------------------
\* State
\* ------------------------------------------------------------------------
VARIABLES
  graphCache,        \* router.ts: let graphCache
  graphLoadPromise,  \* router.ts: let graphLoadPromise (0 = null, else index in loads)
  loads,             \* the promises created by the loading IIFE, in creation order
  fetchCount,        \* number of fetch(ASSET_PATHS.routingGraph) calls issued
  callers,           \* the promises returned to the callers of loadGraph
  dj,                \* one invocation of dijkstra: its arguments and its locals
  rt,                \* one invocation of calculateRoute: arguments and result
  waypoints,         \* store.ts: waypoints, as rendered by RouteLayer
  roadPreferences,   \* store.ts: roadPreferences, as rendered by RouteLayer
  calculatedRoute,   \* store.ts: calculatedRoute
  routePath,         \* RouteLayer.tsx: useState routePath
  segmentsRef,       \* RouteLayer.tsx: segmentsRef.current
  runs,              \* the runs of the route effect: closure and progress
  calls,             \* the calls of calculateRoute and snapToRoad of a session
  bg,                \* one invocation of buildGraph: its argument and its locals
  nn,                \* one invocation of findNearestNode: arguments and result
  st,                \* store.ts: the waypoints, filters and preferences of the store
  url,               \* window.location.search, as its parameters
  opened             \* the page opened from the shared URL: its store and its hook ref

loaderVars == <<graphCache, graphLoadPromise, loads, fetchCount, callers>>
solverVars == <<dj>>
composerVars == <<rt>>
layerVars == <<waypoints, roadPreferences, calculatedRoute, routePath, segmentsRef, runs>>
sessionVars == <<calls>>
builderVars == <<bg>>
locatorVars == <<nn>>
storeVars == <<st, url, opened>>

vars == <<graphCache, graphLoadPromise, loads, fetchCount, callers, dj, rt,
          waypoints, roadPreferences, calculatedRoute, routePath, segmentsRef, runs,
          calls, bg, nn, st, url, opened>>

\* ------------------------------------------------------------------------
\* Graph loader / cache  (router.ts 74-119)
\* ------------------------------------------------------------------------
Null == "null"

CallerIds == 1..NumCallers

\* What fetch() can do: resolve with response.ok, resolve with !response.ok,
\* or reject (network error).
FetchOutcomes == {"ok", "notOk", "networkError"}

\* What response.json() can do: reject (unparseable body), or resolve with a
\* parsed value: JSON null, an object without "metadata", an object with
\* "metadata" but without "nodes", or a graph that follows the schema.
JsonOutcomes == {"unparseable", "jsonNull", "graphNoMeta", "graphNoNodes", "graphOk"}

\* Parsed values on which graph.metadata.nodeCount throws a TypeError.
ThrowsOnMetadata(payload) == payload \in {"jsonNull", "graphNoMeta"}

\* Parsed values that violate the graph file schema of the RoutingGraph type.
SchemaViolation(payload) == payload \in {"jsonNull", "graphNoMeta", "graphNoNodes"}

\* JavaScript truthiness of a value held in graphCache.
Truthy(v) == v # Null

\* The value a parsed payload has as a JavaScript value.
JsValue(payload) == IF payload = "jsonNull" THEN Null ELSE payload

PendingPromise == [state |-> "pending", value |-> Null]
Fulfilled(v) == [state |-> "fulfilled", value |-> v]
Rejected(e) == [state |-> "rejected", value |-> e]

NewLoad == [pc |-> "fetching", promise |-> PendingPromise, cause |-> "none"]

IdleCaller == [pc |-> "idle", awaits |-> 0, early |-> FALSE, promise |-> PendingPromise]

\* TRUE while no loading operation has settled yet.
FirstLoadUnsettled == loads = <<>> \/ loads[1].promise.state = "pending"

\* loadGraph without the in-flight check of lines 85-88.
LoadGraphNoInFlightCheck(c) ==
  /\ callers[c].pc = "idle"
  /\ IF Truthy(graphCache)
       THEN /\ callers' = [callers EXCEPT ![c] =
                 [pc |-> "done", awaits |-> 0, early |-> FirstLoadUnsettled,
                  promise |-> Fulfilled(graphCache)]]
            /\ UNCHANGED <<graphCache, graphLoadPromise, loads, fetchCount>>
       ELSE /\ loads' = Append(loads, NewLoad)
            /\ graphLoadPromise' = Len(loads) + 1
            /\ fetchCount' = fetchCount + 1
            /\ callers' = [callers EXCEPT ![c] =
                 [pc |-> "awaiting", awaits |-> Len(loads) + 1,
                  early |-> FirstLoadUnsettled, promise |-> PendingPromise]]
            /\ UNCHANGED graphCache

\* loadGraph(), up to the promise it returns (lines 79-119).  The loading
\* IIFE runs synchronously up to its first await, so the fetch is issued
\* inside the call that finds neither a cached graph nor a stored promise.
LoadGraph(c) ==
  /\ callers[c].pc = "idle"
  /\ IF Truthy(graphCache)
       THEN /\ callers' = [callers EXCEPT ![c] =
                 [pc |-> "done", awaits |-> 0, early |-> FirstLoadUnsettled,
                  promise |-> Fulfilled(graphCache)]]
            /\ UNCHANGED <<graphCache, graphLoadPromise, loads, fetchCount>>
       ELSE IF graphLoadPromise # 0
         THEN /\ callers' = [callers EXCEPT ![c] =
                   [pc |-> "awaiting", awaits |-> graphLoadPromise,
                    early |-> FirstLoadUnsettled, promise |-> PendingPromise]]
              /\ UNCHANGED <<graphCache, graphLoadPromise, loads, fetchCount>>
         ELSE /\ loads' = Append(loads, NewLoad)
              /\ graphLoadPromise' = Len(loads) + 1
              /\ fetchCount' = fetchCount + 1
              /\ callers' = [callers EXCEPT ![c] =
                   [pc |-> "awaiting", awaits |-> Len(loads) + 1,
                    early |-> FirstLoadUnsettled, promise |-> PendingPromise]]
              /\ UNCHANGED graphCache

\* The continuation after "await fetch(...)" with the catch block removed.
FetchSettleNoCatch(i, outcome) ==
  /\ i \in 1..Len(loads)
  /\ loads[i].pc = "fetching"
  /\ loads' = [loads EXCEPT ![i] =
       CASE outcome = "ok" -> [@ EXCEPT !.pc = "parsing"]
         [] outcome = "notOk" ->
              [pc |-> "settled", promise |-> Fulfilled(Null), cause |-> "notOk"]
         [] outcome = "networkError" ->
              [pc |-> "settled", promise |-> Rejected("networkError"),
               cause |-> "networkError"]]
  /\ UNCHANGED <<graphCache, graphLoadPromise, fetchCount, callers>>

\* The continuation after "await fetch(...)" (lines 101-105 and the catch of
\* lines 112-115): a rejected fetch is caught and gives null, a response
\* that is not ok gives null, an ok response goes on to response.json().
FetchSettle(i, outcome) ==
  /\ i \in 1..Len(loads)
  /\ loads[i].pc = "fetching"
  /\ loads' = [loads EXCEPT ![i] =
       CASE outcome = "ok" -> [@ EXCEPT !.pc = "parsing"]
         [] outcome = "notOk" ->
              [pc |-> "settled", promise |-> Fulfilled(Null), cause |-> "notOk"]
         [] outcome = "networkError" ->
              [pc |-> "settled", promise |-> Fulfilled(Null),
               cause |-> "networkError"]]
  /\ UNCHANGED <<graphCache, graphLoadPromise, fetchCount, callers>>

\* The continuation after "await response.json()" (lines 106-115).  The
\* parsed value is stored in graphCache before graph.metadata is read for
\* the log line; a TypeError of that read is caught and gives null.
JsonSettle(i, payload) ==
  /\ i \in 1..Len(loads)
  /\ loads[i].pc = "parsing"
  /\ IF payload = "unparseable"
       THEN /\ loads' = [loads EXCEPT ![i] =
                 [pc |-> "settled", promise |-> Fulfilled(Null),
                  cause |-> "unparseable"]]
            /\ UNCHANGED graphCache
       ELSE /\ graphCache' = JsValue(payload)
            /\ loads' = [loads EXCEPT ![i] =
                 [pc |-> "settled",
                  promise |-> IF ThrowsOnMetadata(payload)
                                THEN Fulfilled(Null)
                                ELSE Fulfilled(JsValue(payload)),
                  cause |-> payload]]
  /\ UNCHANGED <<graphLoadPromise, fetchCount, callers>>

\* The promise returned by the async function loadGraph follows the stored
\* promise it was resolved with (line 118 / line 87).
CallerSettle(c) ==
  /\ callers[c].pc = "awaiting"
  /\ loads[callers[c].awaits].promise.state # "pending"
  /\ callers' = [callers EXCEPT ![c] =
       [@ EXCEPT !.pc = "done", !.promise = loads[callers[c].awaits].promise]]
  /\ UNCHANGED <<graphCache, graphLoadPromise, loads, fetchCount>>

LoaderNext ==
  \/ \E c \in CallerIds : LoadGraph(c) /\ UNCHANGED <<solverVars, composerVars, layerVars, sessionVars, builderVars, locatorVars, storeVars>>
  \/ \E i \in 1..NumCallers, o \in FetchOutcomes :
       FetchSettle(i, o) /\ UNCHANGED <<solverVars, composerVars, layerVars, sessionVars, builderVars, locatorVars, storeVars>>
  \/ \E i \in 1..NumCallers, p \in JsonOutcomes :
       JsonSettle(i, p) /\ UNCHANGED <<solverVars, composerVars, layerVars, sessionVars, builderVars, locatorVars, storeVars>>
  \/ \E c \in CallerIds : CallerSettle(c) /\ UNCHANGED <<solverVars, composerVars, layerVars, sessionVars, builderVars, locatorVars, storeVars>>

\* ------------------------------------------------------------------------
\* Road classes, speeds and preference weights  (router.ts 19-53, 159-192)
\* ------------------------------------------------------------------------
RoadClasses ==
  <<"highway", "arterial", "collector", "local", "resource", "decommissioned">>

RoadClassSet == {RoadClasses[i] : i \in 1..Len(RoadClasses)}

\* An edge whose roadClass is missing (undefined).
NoClass == "none"

\* ROAD_SPEEDS, km/h.
ROAD_SPEEDS ==
  [c \in RoadClassSet |->
     CASE c = "highway" -> 100
       [] c = "arterial" -> 80
       [] c = "collector" -> 60
       [] c = "local" -> 50
       [] c = "resource" -> 40
       [] c = "decommissioned" -> 20]

\* Travel times are kept as exact multiples of 3 ms: 1200 / speed time units
\* per meter is distance / (speed * 1000 / 3600) seconds, and 1200 is the
\* least common multiple of the six speeds.
TimeScale == 1200

createEmptyRoadClassRecord == [c \in RoadClassSet |-> 0]

calculateTravelTime(distanceMeters, roadClass) ==
  distanceMeters * (TimeScale \div ROAD_SPEEDS[roadClass])

\* edge.roadClass || 'local'
ClassOf(edge) == IF edge.roadClass = NoClass THEN "local" ELSE edge.roadClass

\* Array.prototype.indexOf on a sequence: 0-based index of the first
\* occurrence, -1 when absent.
RECURSIVE IndexFrom(_, _, _)
IndexFrom(seq, x, i) ==
  IF i > Len(seq) THEN -1
  ELSE IF seq[i] = x THEN i - 1
  ELSE IndexFrom(seq, x, i + 1)

indexOf(seq, x) == IndexFrom(seq, x, 1)

\* "preferences" undefined.
NoPreferences == [given |-> FALSE, types |-> <<>>, surfaces |-> <<>>]

\* Multipliers are kept in tenths: 10 is x1.0, 15 is x1.5, 5 + r is
\* 0.5 + 0.1 * r.  Weighted distances are therefore in tenths of a meter.
WeightScale == 10

\* The rank of a listed class is ignored: every listed class gets x0.5.
getPreferenceWeightNoRank(edge, preferences) ==
  IF ~preferences.given THEN WeightScale
  ELSE IF Len(preferences.types) > 0
    THEN IF indexOf(preferences.types, ClassOf(edge)) >= 0 THEN 5 ELSE 15
    ELSE WeightScale

\* getPreferenceWeight with the surfaces list wired in: when surfaces are
\* listed, resource and decommissioned roads cost 0.5 more.
getPreferenceWeightWithSurfaces(edge, preferences) ==
  LET typeIndex == indexOf(preferences.types, ClassOf(edge))
      byType ==
        IF ~preferences.given \/ Len(preferences.types) = 0 THEN WeightScale
        ELSE IF typeIndex >= 0 THEN 5 + typeIndex ELSE 15
  IN IF preferences.given /\ preferences.surfaces # <<>>
          /\ ClassOf(edge) \in {"resource", "decommissioned"}
       THEN byType + 5
       ELSE byType

getPreferenceWeight(edge, preferences) ==
  IF ~preferences.given THEN WeightScale
  ELSE IF Len(preferences.types) > 0
    THEN LET typeIndex == indexOf(preferences.types, ClassOf(edge))
         IN IF typeIndex >= 0 THEN 5 + typeIndex ELSE 15
    ELSE WeightScale

\* ------------------------------------------------------------------------
\* Priority queue  (router.ts 194-212)
\* ------------------------------------------------------------------------
\* enqueue pushes the item and sorts by priority.  The sort is stable and
\* the items were sorted before the push, so the new item ends up behind
\* every item whose priority is not larger.
RECURSIVE InsertSorted(_, _, _)
InsertSorted(items, entry, i) ==
  IF i > Len(items) THEN Append(items, entry)
  ELSE IF items[i].priority > entry.priority
    THEN SubSeq(items, 1, i - 1) \o <<entry>> \o SubSeq(items, i, Len(items))
    ELSE InsertSorted(items, entry, i + 1)

\* enqueue without the sort: the queue becomes first-in first-out.
enqueueUnsorted(items, item, priority) ==
  Append(items, [item |-> item, priority |-> priority])

enqueue(items, item, priority) ==
  InsertSorted(items, [item |-> item, priority |-> priority], 1)

\* ------------------------------------------------------------------------
\* dijkstra  (router.ts 214-324)
\* ------------------------------------------------------------------------
\* Infinity of the distance maps.
Infinity == 1000000

\* previous[nodeId] = null
NoEdge == [targetNodeId |-> Null, weight |-> 0, roadClass |-> NoClass]

NoPrevious == [nodeId |-> Null, edge |-> NoEdge]

\* dijkstra's return value null.
NoPath == [found |-> FALSE]

\* Lines 224-237: the locals after initialisation and the first enqueue.
DijkstraStart(graph, startNodeId, endNodeId, preferences) ==
  [graph |-> graph, startNodeId |-> startNodeId, endNodeId |-> endNodeId,
   preferences |-> preferences,
   distances |-> [n \in DOMAIN graph.nodes |->
                    IF n = startNodeId THEN 0 ELSE Infinity],
   actualDistances |-> [n \in DOMAIN graph.nodes |->
                          IF n = startNodeId THEN 0 ELSE Infinity],
   previous |-> [n \in DOMAIN graph.nodes |-> NoPrevious],
   visited |-> {},
   queue |-> enqueue(<<>>, startNodeId, 0),
   pc |-> "loop",
   edges |-> <<>>,
   result |-> NoPath]

\* Lines 255-273 with the true distance kept only when it decreases.
RelaxEdgeOwnMinimum(s, currentId, edge) ==
  LET t == edge.targetNodeId
      newDistance ==
        s.distances[currentId] + edge.weight * getPreferenceWeight(edge, s.preferences)
      newActualDistance == s.actualDistances[currentId] + edge.weight
  IN IF t \in s.visited \/ t \notin DOMAIN s.distances THEN s
     ELSE IF newDistance < s.distances[t]
       THEN [s EXCEPT !.distances[t] = newDistance,
                      !.actualDistances[t] =
                         IF newActualDistance < @ THEN newActualDistance ELSE @,
                      !.previous[t] = [nodeId |-> currentId, edge |-> edge],
                      !.queue = enqueue(@, t, newDistance)]
       ELSE s

\* Lines 255-273 with a target updated and enqueued also when the new
\* distance equals the old one.
RelaxEdgeOnEqual(s, currentId, edge) ==
  LET t == edge.targetNodeId
      newDistance ==
        s.distances[currentId] + edge.weight * getPreferenceWeight(edge, s.preferences)
      newActualDistance == s.actualDistances[currentId] + edge.weight
  IN IF t \in s.visited \/ t \notin DOMAIN s.distances THEN s
     ELSE IF newDistance <= s.distances[t]
       THEN [s EXCEPT !.distances[t] = newDistance,
                      !.actualDistances[t] = newActualDistance,
                      !.previous[t] = [nodeId |-> currentId, edge |-> edge],
                      !.queue = enqueue(@, t, newDistance)]
       ELSE s

\* Lines 255-273: the body of the loop over the edges of the current node.
\* A target that is no node of the graph has distance undefined, and a
\* comparison with undefined is false.
RelaxEdge(s, currentId, edge) ==
  LET t == edge.targetNodeId
      newDistance ==
        s.distances[currentId] + edge.weight * getPreferenceWeight(edge, s.preferences)
      newActualDistance == s.actualDistances[currentId] + edge.weight
  IN IF t \in s.visited \/ t \notin DOMAIN s.distances THEN s
     ELSE IF newDistance < s.distances[t]
       THEN [s EXCEPT !.distances[t] = newDistance,
                      !.actualDistances[t] = newActualDistance,
                      !.previous[t] = [nodeId |-> currentId, edge |-> edge],
                      !.queue = enqueue(@, t, newDistance)]
       ELSE s

RECURSIVE RelaxEdges(_, _, _, _)
RelaxEdges(s, currentId, edges, i) ==
  IF i > Len(edges) THEN s
  ELSE RelaxEdges(RelaxEdge(s, currentId, edges[i]), currentId, edges, i + 1)

\* Lines 239-274 with the search stopped as soon as a relaxation has
\* reached the target, before the target is dequeued.
DijkstraIterationStopOnDiscovery(s) ==
  IF s.queue = <<>> THEN [s EXCEPT !.pc = "reconstruct"]
  ELSE
    LET currentId == Head(s.queue).item
        popped == [s EXCEPT !.queue = Tail(@)]
    IN IF currentId \in s.visited THEN popped
       ELSE
         LET marked == [popped EXCEPT !.visited = @ \cup {currentId}]
         IN IF currentId = s.endNodeId THEN [marked EXCEPT !.pc = "reconstruct"]
            ELSE IF currentId \notin DOMAIN s.graph.nodes THEN marked
            ELSE LET relaxed ==
                       RelaxEdges(marked, currentId, s.graph.nodes[currentId].edges, 1)
                 IN IF relaxed.distances[s.endNodeId] < Infinity
                      THEN [relaxed EXCEPT !.pc = "reconstruct"]
                      ELSE relaxed

\* One evaluation of the loop condition and, when the queue is not empty,
\* one run of the loop body (lines 239-274).
DijkstraIteration(s) ==
  IF s.queue = <<>> THEN [s EXCEPT !.pc = "reconstruct"]
  ELSE
    LET currentId == Head(s.queue).item
        popped == [s EXCEPT !.queue = Tail(@)]
    IN IF currentId \in s.visited THEN popped
       ELSE
         LET marked == [popped EXCEPT !.visited = @ \cup {currentId}]
         IN IF currentId = s.endNodeId THEN [marked EXCEPT !.pc = "reconstruct"]
            ELSE IF currentId \notin DOMAIN s.graph.nodes THEN marked
            ELSE RelaxEdges(marked, currentId, s.graph.nodes[currentId].edges, 1)

\* Lines 286-295: the walk along the predecessor links, from the target.
\* Gives the node ids and the edges of the path, both in path order.
RECURSIVE WalkBack(_, _, _, _)
WalkBack(previous, current, nodeIds, edges) ==
  IF current = Null THEN [nodeIds |-> nodeIds, edges |-> edges]
  ELSE LET prev == previous[current]
       IN IF prev.nodeId # Null
            THEN WalkBack(previous, prev.nodeId, <<current>> \o nodeIds,
                          <<prev.edge>> \o edges)
            ELSE WalkBack(previous, Null, <<current>> \o nodeIds, edges)

\* Lines 297-305: the per-class sums over the edges of the path.
RECURSIVE SumByClass(_, _, _)
SumByClass(edges, i, acc) ==
  IF i > Len(edges) THEN acc
  ELSE LET roadClass == ClassOf(edges[i])
           w == edges[i].weight
       IN SumByClass(edges, i + 1,
            [distanceByRoadClass |->
               [acc.distanceByRoadClass EXCEPT ![roadClass] = @ + w],
             travelTimeByRoadClass |->
               [acc.travelTimeByRoadClass EXCEPT ![roadClass] =
                  @ + calculateTravelTime(w, roadClass)]])

\* Sum of a per-class record over the six classes, in key order.
RECURSIVE SumClasses(_, _)
SumClasses(rec, i) ==
  IF i > Len(RoadClasses) THEN 0
  ELSE rec[RoadClasses[i]] + SumClasses(rec, i + 1)

\* Lines 276-323 with the weighted distance reported.
DijkstraFinishWeighted(s) ==
  IF s.distances[s.endNodeId] = Infinity
    THEN [s EXCEPT !.pc = "done", !.result = NoPath]
    ELSE
      LET walk == WalkBack(s.previous, s.endNodeId, <<>>, <<>>)
          sums == SumByClass(walk.edges, 1,
                    [distanceByRoadClass |-> createEmptyRoadClassRecord,
                     travelTimeByRoadClass |-> createEmptyRoadClassRecord])
      IN [s EXCEPT
            !.pc = "done",
            !.edges = walk.edges,
            !.result =
              [found |-> TRUE,
               path |-> [k \in 1..Len(walk.nodeIds) |->
                           s.graph.nodes[walk.nodeIds[k]].position],
               distance |-> s.distances[s.endNodeId],
               nodeIds |-> walk.nodeIds,
               distanceByRoadClass |-> sums.distanceByRoadClass,
               travelTime |-> SumClasses(sums.travelTimeByRoadClass, 1),
               travelTimeByRoadClass |-> sums.travelTimeByRoadClass]]

\* Lines 276-323 with "no path" reported whenever the target has no
\* predecessor.
DijkstraFinishNeedsPredecessor(s) ==
  IF s.previous[s.endNodeId].nodeId = Null
    THEN [s EXCEPT !.pc = "done", !.result = NoPath]
    ELSE DijkstraFinishWeighted([s EXCEPT !.distances = s.actualDistances])

\* Lines 276-323: no path when the target was never reached, else the path,
\* its true distance and the per-class breakdown.
DijkstraFinish(s) ==
  IF s.distances[s.endNodeId] = Infinity
    THEN [s EXCEPT !.pc = "done", !.result = NoPath]
    ELSE
      LET walk == WalkBack(s.previous, s.endNodeId, <<>>, <<>>)
          sums == SumByClass(walk.edges, 1,
                    [distanceByRoadClass |-> createEmptyRoadClassRecord,
                     travelTimeByRoadClass |-> createEmptyRoadClassRecord])
      IN [s EXCEPT
            !.pc = "done",
            !.edges = walk.edges,
            !.result =
              [found |-> TRUE,
               path |-> [k \in 1..Len(walk.nodeIds) |->
                           s.graph.nodes[walk.nodeIds[k]].position],
               distance |-> s.actualDistances[s.endNodeId],
               nodeIds |-> walk.nodeIds,
               distanceByRoadClass |-> sums.distanceByRoadClass,
               travelTime |-> SumClasses(sums.travelTimeByRoadClass, 1),
               travelTimeByRoadClass |-> sums.travelTimeByRoadClass]]

\* The whole call: the loop run to its end, then the reconstruction.
RECURSIVE DijkstraRun(_)
DijkstraRun(s) ==
  IF s.pc = "loop" THEN DijkstraRun(DijkstraIteration(s))
  ELSE DijkstraFinish(s)

dijkstra(graph, startNodeId, endNodeId, preferences) ==
  DijkstraRun(DijkstraStart(graph, startNodeId, endNodeId, preferences)).result


\* ------------------------------------------------------------------------
\* The solver as a state machine over a family of small graphs
\* ------------------------------------------------------------------------
\* Node ids as buildGraph names them, in Object.keys order.
NodeIds == <<"n0", "n1", "n2">>

NodeIdSet == {NodeIds[i] : i \in 1..Len(NodeIds)}

\* Positions are whole multiples of 0.000005 degrees, half the tolerance of
\* positionsEqual.  Node n_k of the solver graphs sits at longitude 4 * k.
NodePosition(n) == [lat |-> 0, lng |-> 4 * (indexOf(NodeIds, n) + 1)]

Pairs == {p \in NodeIdSet \X NodeIdSet : p[1] # p[2]}

\* The road class of the edge of an ordered pair in the solver graphs; one
\* pair carries no roadClass at all.
PairClass(from, to) ==
  CASE {from, to} = {"n0", "n1"} -> "highway"
    [] {from, to} = {"n0", "n2"} -> "resource"
    [] from = "n1" /\ to = "n2" -> "local"
    [] OTHER -> NoClass

\* The edge list of a node: its present edges in the order of the targets.
RECURSIVE EdgeList(_, _, _)
EdgeList(weights, from, i) ==
  IF i > Len(NodeIds) THEN <<>>
  ELSE LET to == NodeIds[i]
       IN IF to # from /\ weights[<<from, to>>] >= 0
            THEN <<[targetNodeId |-> to, weight |-> weights[<<from, to>>],
                    roadClass |-> PairClass(from, to)]>>
                 \o EdgeList(weights, from, i + 1)
            ELSE EdgeList(weights, from, i + 1)

\* A graph from one weight per ordered pair; -1 means no such edge.
GraphOf(weights) ==
  [nodes |-> [n \in NodeIdSet |->
     [id |-> n, position |-> NodePosition(n), edges |-> EdgeList(weights, n, 1)]]]

SolverGraphs == {GraphOf(w) : w \in [Pairs -> (-1)..MaxWeight]}

SolverPreferences ==
  {NoPreferences,
   [given |-> TRUE, types |-> <<>>, surfaces |-> <<>>],
   [given |-> TRUE, types |-> <<"highway">>, surfaces |-> <<>>],
   [given |-> TRUE, types |-> <<"local", "highway">>, surfaces |-> <<>>],
   [given |-> TRUE, types |-> <<"resource", "local">>, surfaces |-> <<"paved">>]}

IdleSolver == [pc |-> "idle"]

DijkstraLoop ==
  /\ dj.pc = "loop"
  /\ dj' = DijkstraIteration(dj)

DijkstraReturn ==
  /\ dj.pc = "reconstruct"
  /\ dj' = DijkstraFinish(dj)

SolverNext ==
  \/ DijkstraLoop /\ UNCHANGED <<loaderVars, composerVars, layerVars, sessionVars, builderVars, locatorVars, storeVars>>
  \/ DijkstraReturn /\ UNCHANGED <<loaderVars, composerVars, layerVars, sessionVars, builderVars, locatorVars, storeVars>>


\* ------------------------------------------------------------------------
\* Distances between positions  (router.ts 121-136, 478-494)
\* ------------------------------------------------------------------------
Abs(x) == IF x < 0 THEN -x ELSE x

\* Largest k in lo..hi with k * k <= n, by bisection.
RECURSIVE ISqrtBetween(_, _, _)
ISqrtBetween(n, lo, hi) ==
  IF lo >= hi THEN lo
  ELSE LET mid == (lo + hi + 1) \div 2
       IN IF mid * mid <= n THEN ISqrtBetween(n, mid, hi)
          ELSE ISqrtBetween(n, lo, mid - 1)

\* Largest k with k * k <= n, searched up to the given limit.
ISqrt(n, limit) == ISqrtBetween(n, 0, limit)

\* Positions are whole multiples of 0.000005 degrees near the equator, where
\* the great-circle distance of two points a few meters apart is the
\* Euclidean length of their coordinate difference.  Distances are kept in
\* tenths of that unit, rounded down.
HaversineScale == 10

haversineDistance(p1, p2) ==
  LET dLat == Abs(p2.lat - p1.lat)
      dLng == Abs(p2.lng - p1.lng)
  IN ISqrt(HaversineScale * HaversineScale * (dLat * dLat + dLng * dLng),
           HaversineScale * (dLat + dLng))

\* The tolerance 0.00001 degrees of positionsEqual is two position units.
PositionTolerance == 2

\* positionsEqual comparing the longitude only.
positionsEqualLngOnly(p1, p2) == Abs(p1.lng - p2.lng) < PositionTolerance

positionsEqual(p1, p2) ==
  Abs(p1.lat - p2.lat) < PositionTolerance /\ Abs(p1.lng - p2.lng) < PositionTolerance

RECURSIVE StraightLineFrom(_, _)
StraightLineFrom(positions, i) ==
  IF i > Len(positions) THEN 0
  ELSE haversineDistance(positions[i - 1], positions[i])
       + StraightLineFrom(positions, i + 1)

\* calculateStraightLineDistance with the loop started one pair late.
calculateStraightLineDistanceFromSecond(positions) == StraightLineFrom(positions, 3)

calculateStraightLineDistance(positions) == StraightLineFrom(positions, 2)

\* ------------------------------------------------------------------------
\* findNearestNode  (router.ts 138-157)
\* ------------------------------------------------------------------------
\* The value null of a GraphNode.
NoNode == [id |-> Null]

\* Object.values(graph.nodes): the nodes in key order.
RECURSIVE NodesInOrder(_, _)
NodesInOrder(graph, i) ==
  IF i > Len(NodeIds) THEN <<>>
  ELSE IF NodeIds[i] \in DOMAIN graph.nodes
    THEN <<graph.nodes[NodeIds[i]]>> \o NodesInOrder(graph, i + 1)
    ELSE NodesInOrder(graph, i + 1)

\* The scan of findNearestNode taking a node at equal distance as nearer.
RECURSIVE NearestScanTakesEqual(_, _, _, _, _)
NearestScanTakesEqual(nodes, position, i, nearestNode, nearestDistance) ==
  IF i > Len(nodes) THEN nearestNode
  ELSE LET distance == haversineDistance(position, nodes[i].position)
       IN IF distance <= nearestDistance
            THEN NearestScanTakesEqual(nodes, position, i + 1, nodes[i], distance)
            ELSE NearestScanTakesEqual(nodes, position, i + 1, nearestNode,
                                       nearestDistance)

RECURSIVE NearestScan(_, _, _, _, _)
NearestScan(nodes, position, i, nearestNode, nearestDistance) ==
  IF i > Len(nodes) THEN nearestNode
  ELSE LET distance == haversineDistance(position, nodes[i].position)
       IN IF distance < nearestDistance
            THEN NearestScan(nodes, position, i + 1, nodes[i], distance)
            ELSE NearestScan(nodes, position, i + 1, nearestNode, nearestDistance)

findNearestNode(graph, position) ==
  NearestScan(NodesInOrder(graph, 1), position, 1, NoNode, Infinity)

\* ------------------------------------------------------------------------
\* calculateRoute  (router.ts 326-476)
\* ------------------------------------------------------------------------
\* calculateRoute's return value null.
NullRoute == [mode |-> "null"]

LocalOnly(value) == [createEmptyRoadClassRecord EXCEPT !["local"] = value]

\* Lines 349-363 and 369-384: the straight line through the raw waypoints,
\* all of it in the local bucket, without legs.
WholeRouteFallback(positions) ==
  LET distance == calculateStraightLineDistance(positions)
      fallbackTimes == LocalOnly(calculateTravelTime(distance, "local"))
  IN [mode |-> "fallback",
      path |-> positions,
      distance |-> distance,
      nodeIds |-> <<>>,
      distanceByRoadClass |-> LocalOnly(distance),
      travelTime |-> fallbackTimes["local"],
      travelTimeByRoadClass |-> fallbackTimes,
      legs |-> <<>>,
      segments |-> <<>>]

\* The locals of the leg loop before its first iteration (lines 386-392).
\* "segments" collects the results dijkstra returned to the loop.
EmptyRoute ==
  [fullPath |-> <<>>, allNodeIds |-> <<>>, legs |-> <<>>, totalDistance |-> 0,
   totalDistanceByRoadClass |-> createEmptyRoadClassRecord,
   totalTravelTimeByRoadClass |-> createEmptyRoadClassRecord,
   segments |-> <<>>]

\* Lines 401-426 with the straight-line distance of the leg booked as
\* resource road.
StraightLineLegAsResource(acc, i, startNode, endNode) ==
  LET straightLineDistance == haversineDistance(startNode.position, endNode.position)
      legTravelTime == calculateTravelTime(straightLineDistance, "resource")
      withStart ==
        IF acc.fullPath = <<>>
           \/ ~positionsEqual(acc.fullPath[Len(acc.fullPath)], startNode.position)
          THEN Append(acc.fullPath, startNode.position)
          ELSE acc.fullPath
  IN [acc EXCEPT
        !.fullPath = Append(withStart, endNode.position),
        !.totalDistance = @ + straightLineDistance,
        !.legs = Append(@,
           [fromWaypointIndex |-> i, toWaypointIndex |-> i + 1,
            distance |-> straightLineDistance,
            distanceByRoadClass |->
              [createEmptyRoadClassRecord EXCEPT !["resource"] = straightLineDistance],
            travelTime |-> legTravelTime,
            travelTimeByRoadClass |->
              [createEmptyRoadClassRecord EXCEPT !["resource"] = legTravelTime]]),
        !.totalDistanceByRoadClass["resource"] = @ + straightLineDistance,
        !.totalTravelTimeByRoadClass["resource"] = @ + legTravelTime]

\* Lines 401-426: the leg of a waypoint pair without a path.  i is the
\* 0-based loop index.
StraightLineLeg(acc, i, startNode, endNode) ==
  LET straightLineDistance == haversineDistance(startNode.position, endNode.position)
      legTravelTime == calculateTravelTime(straightLineDistance, "local")
      withStart ==
        IF acc.fullPath = <<>>
           \/ ~positionsEqual(acc.fullPath[Len(acc.fullPath)], startNode.position)
          THEN Append(acc.fullPath, startNode.position)
          ELSE acc.fullPath
  IN [acc EXCEPT
        !.fullPath = Append(withStart, endNode.position),
        !.totalDistance = @ + straightLineDistance,
        !.legs = Append(@,
           [fromWaypointIndex |-> i, toWaypointIndex |-> i + 1,
            distance |-> straightLineDistance,
            distanceByRoadClass |-> LocalOnly(straightLineDistance),
            travelTime |-> legTravelTime,
            travelTimeByRoadClass |-> LocalOnly(legTravelTime)]),
        !.totalDistanceByRoadClass["local"] = @ + straightLineDistance,
        !.totalTravelTimeByRoadClass["local"] = @ + legTravelTime]

\* slice(startIndex) of a sequence, startIndex 0-based.
Slice(seq, startIndex) == SubSeq(seq, startIndex + 1, Len(seq))

\* Lines 429-458 with the segment's first point always kept.
RoutedLegKeepFirst(acc, i, segment) ==
  LET nodeStartIndex ==
        IF acc.allNodeIds # <<>>
           /\ acc.allNodeIds[Len(acc.allNodeIds)] = segment.nodeIds[1]
          THEN 1 ELSE 0
  IN [acc EXCEPT
        !.fullPath = @ \o segment.path,
        !.totalDistance = @ + segment.distance,
        !.allNodeIds = @ \o Slice(segment.nodeIds, nodeStartIndex),
        !.legs = Append(@,
           [fromWaypointIndex |-> i, toWaypointIndex |-> i + 1,
            distance |-> segment.distance,
            distanceByRoadClass |-> segment.distanceByRoadClass,
            travelTime |-> segment.travelTime,
            travelTimeByRoadClass |-> segment.travelTimeByRoadClass]),
        !.totalDistanceByRoadClass =
           [c \in RoadClassSet |-> @[c] + segment.distanceByRoadClass[c]],
        !.totalTravelTimeByRoadClass =
           [c \in RoadClassSet |-> @[c] + segment.travelTimeByRoadClass[c]]]

\* Lines 429-458 with the segment's distance added to the total only when
\* the segment's first point is kept.
RoutedLegDistanceWithFirstPoint(acc, i, segment) ==
  LET startIndex ==
        IF acc.fullPath # <<>>
           /\ positionsEqual(acc.fullPath[Len(acc.fullPath)], segment.path[1])
          THEN 1 ELSE 0
      nodeStartIndex ==
        IF acc.allNodeIds # <<>>
           /\ acc.allNodeIds[Len(acc.allNodeIds)] = segment.nodeIds[1]
          THEN 1 ELSE 0
  IN [acc EXCEPT
        !.fullPath = @ \o Slice(segment.path, startIndex),
        !.totalDistance = IF startIndex = 0 THEN @ + segment.distance ELSE @,
        !.allNodeIds = @ \o Slice(segment.nodeIds, nodeStartIndex),
        !.legs = Append(@,
           [fromWaypointIndex |-> i, toWaypointIndex |-> i + 1,
            distance |-> segment.distance,
            distanceByRoadClass |-> segment.distanceByRoadClass,
            travelTime |-> segment.travelTime,
            travelTimeByRoadClass |-> segment.travelTimeByRoadClass]),
        !.totalDistanceByRoadClass =
           [c \in RoadClassSet |-> @[c] + segment.distanceByRoadClass[c]],
        !.totalTravelTimeByRoadClass =
           [c \in RoadClassSet |-> @[c] + segment.travelTimeByRoadClass[c]]]

\* Lines 429-458: the leg of a waypoint pair with a path.
RoutedLeg(acc, i, segment) ==
  LET startIndex ==
        IF acc.fullPath # <<>>
           /\ positionsEqual(acc.fullPath[Len(acc.fullPath)], segment.path[1])
          THEN 1 ELSE 0
      nodeStartIndex ==
        IF acc.allNodeIds # <<>>
           /\ acc.allNodeIds[Len(acc.allNodeIds)] = segment.nodeIds[1]
          THEN 1 ELSE 0
  IN [acc EXCEPT
        !.fullPath = @ \o Slice(segment.path, startIndex),
        !.totalDistance = @ + segment.distance,
        !.allNodeIds = @ \o Slice(segment.nodeIds, nodeStartIndex),
        !.legs = Append(@,
           [fromWaypointIndex |-> i, toWaypointIndex |-> i + 1,
            distance |-> segment.distance,
            distanceByRoadClass |-> segment.distanceByRoadClass,
            travelTime |-> segment.travelTime,
            travelTimeByRoadClass |-> segment.travelTimeByRoadClass]),
        !.totalDistanceByRoadClass =
           [c \in RoadClassSet |-> @[c] + segment.distanceByRoadClass[c]],
        !.totalTravelTimeByRoadClass =
           [c \in RoadClassSet |-> @[c] + segment.travelTimeByRoadClass[c]]]

\* Lines 394-459: the loop over the waypoint pairs, i 0-based.
RECURSIVE RouteLegs(_, _, _, _, _)
RouteLegs(acc, graph, waypointNodes, preferences, i) ==
  IF i >= Len(waypointNodes) - 1 THEN acc
  ELSE
    LET startNode == waypointNodes[i + 1]
        endNode == waypointNodes[i + 2]
        segment == dijkstra(graph, startNode.id, endNode.id, preferences)
        seen == [acc EXCEPT !.segments = Append(@, segment)]
    IN RouteLegs(IF segment.found
                   THEN RoutedLeg(seen, i, segment)
                   ELSE StraightLineLeg(seen, i, startNode, endNode),
                 graph, waypointNodes, preferences, i + 1)

\* The value loadGraph resolves to when no graph is available.
NoGraph == [loaded |-> FALSE, nodes |-> <<>>]

\* calculateRoute from the value loadGraph resolved to (lines 337-476).
calculateRoute(graph, positions, preferences) ==
  IF Len(positions) < 2 THEN NullRoute
  ELSE IF ~graph.loaded THEN WholeRouteFallback(positions)
  ELSE
    LET waypointNodes ==
          [k \in 1..Len(positions) |-> findNearestNode(graph, positions[k])]
    IN IF \E k \in 1..Len(positions) : waypointNodes[k].id = Null
         THEN WholeRouteFallback(positions)
         ELSE
           LET acc == RouteLegs(EmptyRoute, graph, waypointNodes, preferences, 0)
           IN [mode |-> "routed",
               path |-> acc.fullPath,
               distance |-> acc.totalDistance,
               nodeIds |-> acc.allNodeIds,
               distanceByRoadClass |-> acc.totalDistanceByRoadClass,
               travelTime |-> SumClasses(acc.totalTravelTimeByRoadClass, 1),
               travelTimeByRoadClass |-> acc.totalTravelTimeByRoadClass,
               legs |-> acc.legs,
               segments |-> acc.segments]

\* ------------------------------------------------------------------------
\* The composer as a state machine over small graphs and waypoint lists
\* ------------------------------------------------------------------------
\* The graph file was loaded and has the nodes of g.
Loaded(g) == [loaded |-> TRUE, nodes |-> g.nodes]

\* A loaded graph with zero nodes.
EmptyGraph == [loaded |-> TRUE, nodes |-> <<>>]

\* Graphs as buildGraph emits them: both directions of a pair have the same
\* weight.
SymmetricGraphs ==
  {GraphOf(w) : w \in {v \in [Pairs -> (-1)..MaxWeight] :
                         \A p \in Pairs : v[p] = v[<<p[2], p[1]>>]}}

RouteGraphs == {NoGraph, EmptyGraph} \cup {Loaded(g) : g \in SymmetricGraphs}

\* The node positions, a point within the tolerance of node n0, and the
\* point halfway between n0 and n1.
WaypointPositions ==
  {NodePosition(n) : n \in NodeIdSet}
    \cup {[lat |-> 1, lng |-> 4], [lat |-> 0, lng |-> 6]}

WaypointLists == UNION {[1..k -> WaypointPositions] : k \in 1..MaxWaypoints}

\* No preferences, and the store's default preferences.
RoutePreferences ==
  {NoPreferences,
   [given |-> TRUE, types |-> <<"resource">>, surfaces |-> <<"loose">>]}

IdleComposer == [pc |-> "idle"]

\* calculateRoute(waypoints, preferences) once "await loadGraph()" has
\* resolved to rt.graph.
CalculateRoute ==
  /\ rt.pc = "called"
  /\ rt' = [rt EXCEPT !.pc = "returned",
                      !.result = calculateRoute(rt.graph, rt.waypoints, rt.preferences)]

ComposerNext ==
  CalculateRoute /\ UNCHANGED <<loaderVars, solverVars, layerVars, sessionVars, builderVars, locatorVars, storeVars>>


\* ------------------------------------------------------------------------
\* The composer on routable graphs, over preference values
\* ------------------------------------------------------------------------
\* The graph n0 - n1 - n2 with two local edges of length L, both ways.  The
\* nodes are equally spaced on one parallel.
LineEdge(to, L) == [targetNodeId |-> to, weight |-> L, roadClass |-> "local"]

LineGraph(L) ==
  [nodes |-> [n \in NodeIdSet |->
     [id |-> n, position |-> NodePosition(n),
      edges |-> CASE n = "n0" -> <<LineEdge("n1", L)>>
                  [] n = "n1" -> <<LineEdge("n0", L), LineEdge("n2", L)>>
                  [] n = "n2" -> <<LineEdge("n1", L)>>]]]

\* Lengths of the edges of the line graphs: small ones, and the distance
\* between two neighbouring nodes.
LineLengths ==
  (1..MaxWeight) \cup {haversineDistance(NodePosition("n0"), NodePosition("n1"))}

PlanGraphs ==
  {Loaded(g) : g \in SymmetricGraphs} \cup {Loaded(LineGraph(L)) : L \in LineLengths}

\* Waypoints on the nodes, consecutive ones on different nodes.
PlanWaypointLists ==
  UNION {{w \in [1..k -> {NodePosition(n) : n \in NodeIdSet}] :
            \A j \in 1..(k - 1) : w[j] # w[j + 1]} : k \in 2..MaxWaypoints}

\* Values of the surfaces list of RoadPreferences.
SurfaceLists == {<<>>, <<"loose">>, <<"paved", "rough">>}

\* No preferences, and preferences with and without types and surfaces.
PlanPreferences ==
  {NoPreferences} \cup
  {[given |-> TRUE, types |-> types, surfaces |-> surfaces] :
     types \in {<<>>, <<"resource">>, <<"local", "highway">>},
     surfaces \in SurfaceLists}


\* ------------------------------------------------------------------------
\* A session: calls of calculateRoute and snapToRoad on top of the loader
\* (router.ts 337-347, 499-517)
\* ------------------------------------------------------------------------
\* The graph of the graph file of the session: n0 and n1 joined by a
\* highway of weight 1, n2 on its own.
SessionGraph ==
  GraphOf([p \in Pairs |-> IF {p[1], p[2]} = {"n0", "n1"} THEN 1 ELSE -1])

\* Values of loadGraph on which Object.values(graph.nodes) throws: the
\* parsed file has no "nodes".
NodesMissing(v) == v = "graphNoNodes"

\* The graph that calculateRoute and snapToRoad see in the value loadGraph
\* resolved to.  The file without "metadata" does have the nodes.
GraphValue(v) == IF Truthy(v) THEN Loaded(SessionGraph) ELSE NoGraph

\* 500 meters, in the unit of haversineDistance (0.0556 m).
SnapLimit == 8993

NoPosition == [lat |-> -1, lng |-> -1]

IdleCall ==
  [pc |-> "idle", fn |-> "none", waypoints |-> <<>>, preferences |-> NoPreferences,
   outcome |-> "pending", route |-> NullRoute, snapped |-> NoPosition]

NewCall(fn, positions, preferences) ==
  [pc |-> "awaiting", fn |-> fn, waypoints |-> positions,
   preferences |-> preferences, outcome |-> "pending", route |-> NullRoute,
   snapped |-> NoPosition]

SessionWaypointLists ==
  {<<NodePosition("n0"), NodePosition("n1")>>,
   <<[lat |-> 1, lng |-> 4], NodePosition("n2")>>}

SessionPositions == {[lat |-> 1, lng |-> 4]}

\* calculateRoute(waypoints, preferences) with two or more waypoints, up to
\* "await loadGraph()" (lines 337-346).
CalculateRouteCall(c, positions, preferences) ==
  /\ calls[c].pc = "idle"
  /\ LoadGraph(c)
  /\ calls' = [calls EXCEPT ![c] = NewCall("calculateRoute", positions, preferences)]

\* snapToRoad(position), up to "await loadGraph()" (lines 499-500).
SnapToRoadCall(c, position) ==
  /\ calls[c].pc = "idle"
  /\ LoadGraph(c)
  /\ calls' = [calls EXCEPT ![c] = NewCall("snapToRoad", <<position>>, NoPreferences)]

\* calculateRoute after "await loadGraph()" (lines 346-476).  On a graph
\* without "nodes" findNearestNode throws and the call rejects.
CalculateRouteResume(c) ==
  /\ calls[c].pc = "awaiting"
  /\ calls[c].fn = "calculateRoute"
  /\ callers[c].pc = "done"
  /\ LET call == calls[c]
         v == callers[c].promise.value
     IN calls' = [calls EXCEPT ![c] =
          IF callers[c].promise.state = "rejected"
               \/ (Truthy(v) /\ NodesMissing(v))
            THEN [call EXCEPT !.pc = "done", !.outcome = "rejected"]
            ELSE [call EXCEPT
                    !.pc = "done", !.outcome = "resolved",
                    !.route = calculateRoute(GraphValue(v), call.waypoints,
                                             call.preferences)]]
  /\ UNCHANGED loaderVars

\* snapToRoad after "await loadGraph()" (lines 500-517).
SnapToRoadResume(c) ==
  /\ calls[c].pc = "awaiting"
  /\ calls[c].fn = "snapToRoad"
  /\ callers[c].pc = "done"
  /\ LET call == calls[c]
         position == call.waypoints[1]
         v == callers[c].promise.value
         nearestNode == findNearestNode(GraphValue(v), position)
     IN calls' = [calls EXCEPT ![c] =
          IF callers[c].promise.state = "rejected"
               \/ (Truthy(v) /\ NodesMissing(v))
            THEN [call EXCEPT !.pc = "done", !.outcome = "rejected"]
          ELSE IF ~Truthy(v) \/ nearestNode.id = Null
            THEN [call EXCEPT !.pc = "done", !.outcome = "resolved",
                              !.snapped = position]
          ELSE IF haversineDistance(position, nearestNode.position) > SnapLimit
            THEN [call EXCEPT !.pc = "done", !.outcome = "resolved",
                              !.snapped = position]
          ELSE [call EXCEPT !.pc = "done", !.outcome = "resolved",
                            !.snapped = nearestNode.position]]
  /\ UNCHANGED loaderVars

SessionNext ==
  \/ \E c \in CallerIds, positions \in SessionWaypointLists :
       /\ CalculateRouteCall(c, positions, NoPreferences)
       /\ UNCHANGED <<solverVars, composerVars, layerVars, builderVars, locatorVars, storeVars>>
  \/ \E c \in CallerIds, position \in SessionPositions :
       /\ SnapToRoadCall(c, position)
       /\ UNCHANGED <<solverVars, composerVars, layerVars, builderVars, locatorVars, storeVars>>
  \/ \E i \in 1..NumCallers, o \in FetchOutcomes :
       FetchSettle(i, o)
         /\ UNCHANGED <<solverVars, composerVars, layerVars, sessionVars, builderVars, locatorVars, storeVars>>
  \/ \E i \in 1..NumCallers, payload \in JsonOutcomes :
       JsonSettle(i, payload)
         /\ UNCHANGED <<solverVars, composerVars, layerVars, sessionVars, builderVars, locatorVars, storeVars>>
  \/ \E c \in CallerIds :
       CallerSettle(c)
         /\ UNCHANGED <<solverVars, composerVars, layerVars, sessionVars, builderVars, locatorVars, storeVars>>
  \/ \E c \in CallerIds :
       CalculateRouteResume(c)
         /\ UNCHANGED <<solverVars, composerVars, layerVars, builderVars, locatorVars, storeVars>>
  \/ \E c \in CallerIds :
       SnapToRoadResume(c)
         /\ UNCHANGED <<solverVars, composerVars, layerVars, builderVars, locatorVars, storeVars>>


\* ------------------------------------------------------------------------
\* The graph builder  (build script, buildGraph, lines 52-200)
\* ------------------------------------------------------------------------
\* Coordinates of the input are whole multiples of 0.000004 degrees, so
\* that no coordinate lies halfway between two values of five decimals.
\* A coordinate pair is <<lng, lat>> as in GeoJSON.

\* The decimals of |x|.toFixed(5), as a whole number of 0.00001 degrees.
ToFixed5(k) == (4 * Abs(k) + 5) \div 10

\* x.toFixed(5): the sign of x is kept even when the decimals are all zero
\* ("-0.00000").
ToFixedString(k) == [minus |-> k < 0, digits |-> ToFixed5(k)]

coordKey(lng, lat) == <<ToFixedString(lng), ToFixedString(lat)>>

\* Number(s) of such a string, in units of 0.00001 degrees.
ParseNumber(str) == IF str.minus THEN -str.digits ELSE str.digits

\* haversineDistance of the build script on two coordinate pairs.
BuilderDistance(c1, c2) ==
  haversineDistance([lat |-> c1[2], lng |-> c1[1]], [lat |-> c2[2], lng |-> c2[1]])

RECURSIVE LineStringLengthFrom(_, _)
LineStringLengthFrom(coordinates, i) ==
  IF i > Len(coordinates) THEN 0
  ELSE BuilderDistance(coordinates[i - 1], coordinates[i])
         + LineStringLengthFrom(coordinates, i + 1)

lineStringLength(coordinates) == LineStringLengthFrom(coordinates, 2)

\* `n${nodeIdCounter}` and `s${segmentCounter}`.
NodeId(k) == <<"n", k>>
SegmentId(k) == <<"s", k>>

\* A feature is the type of its geometry and its list of polylines: the
\* coordinates of a MultiLineString, the coordinates of a LineString wrapped
\* in a list (lines 106-108), nothing for other types.
\* roadClass is the road classification attribute of the feature; the
\* builder reads feature.geometry only.
LineString(coords) ==
  [type |-> "LineString", lines |-> <<coords>>, roadClass |-> "resource"]
MultiLineString(lines) ==
  [type |-> "MultiLineString", lines |-> lines, roadClass |-> "highway"]
PointGeometry == [type |-> "Point", lines |-> <<>>, roadClass |-> "local"]
\* The coordinates of a Polygon are a list of rings, each a list of
\* coordinate pairs.
PolygonGeometry(rings) == [type |-> "Polygon", lines |-> rings, roadClass |-> "local"]

\* coordArrays without the test of the geometry type.
coordArraysAnyType(feature) == feature.lines

coordArrays(feature) ==
  IF feature.type \in {"LineString", "MultiLineString"} THEN feature.lines ELSE <<>>

\* Map.get / Map.set on a Map kept as the list of its entries in insertion
\* order.
MapHas(map, key) == \E i \in 1..Len(map) : map[i].key = key
MapIndex(map, key) == CHOOSE i \in 1..Len(map) : map[i].key = key
MapGet(map, key, default) ==
  IF MapHas(map, key) THEN map[MapIndex(map, key)].value ELSE default
MapSet(map, key, value) ==
  IF MapHas(map, key)
    THEN [map EXCEPT ![MapIndex(map, key)].value = value]
    ELSE Append(map, [key |-> key, value |-> value])

\* First pass, one polyline (lines 113-121).
CountEndpoints(endpointCounts, coords) ==
  IF Len(coords) < 2 THEN endpointCounts
  ELSE LET startKey == coordKey(coords[1][1], coords[1][2])
           endKey == coordKey(coords[Len(coords)][1], coords[Len(coords)][2])
           counted == MapSet(endpointCounts, startKey,
                             MapGet(endpointCounts, startKey, 0) + 1)
       IN MapSet(counted, endKey, MapGet(counted, endKey, 0) + 1)

RECURSIVE CountEndpointsOf(_, _, _)
CountEndpointsOf(endpointCounts, lines, i) ==
  IF i > Len(lines) THEN endpointCounts
  ELSE CountEndpointsOf(CountEndpoints(endpointCounts, lines[i]), lines, i + 1)

\* The second pass creating nodes at intersections only.
RECURSIVE CreateNodesAtIntersections(_, _, _)
CreateNodesAtIntersections(endpointCounts, i, acc) ==
  IF i > Len(endpointCounts) THEN acc
  ELSE IF endpointCounts[i].value >= 2
    THEN LET key == endpointCounts[i].key
             nodeId == NodeId(acc.nodeIdCounter)
         IN CreateNodesAtIntersections(endpointCounts, i + 1,
              [nodeIdCounter |-> acc.nodeIdCounter + 1,
               coordToNode |-> MapSet(acc.coordToNode, key, nodeId),
               nodes |-> Append(acc.nodes,
                 [id |-> nodeId,
                  position |-> [lat |-> ParseNumber(key[2]), lng |-> ParseNumber(key[1])],
                  edges |-> <<>>])])
    ELSE CreateNodesAtIntersections(endpointCounts, i + 1, acc)

\* Second pass (lines 126-138): one node per counted key, in the insertion
\* order of the Map, at the position parsed back from the key.
RECURSIVE CreateNodes(_, _, _)
CreateNodes(endpointCounts, i, acc) ==
  IF i > Len(endpointCounts) THEN acc
  ELSE IF endpointCounts[i].value >= 1
    THEN LET key == endpointCounts[i].key
             nodeId == NodeId(acc.nodeIdCounter)
         IN CreateNodes(endpointCounts, i + 1,
              [nodeIdCounter |-> acc.nodeIdCounter + 1,
               coordToNode |-> MapSet(acc.coordToNode, key, nodeId),
               nodes |-> Append(acc.nodes,
                 [id |-> nodeId,
                  position |-> [lat |-> ParseNumber(key[2]), lng |-> ParseNumber(key[1])],
                  edges |-> <<>>])])
    ELSE CreateNodes(endpointCounts, i + 1, acc)

\* nodes[nodeId] of the record of nodes, kept as a list in creation order.
NodeIndex(nodes, nodeId) == CHOOSE i \in 1..Len(nodes) : nodes[i].id = nodeId

\* The two pushes of lines 171-181, the forward edge only.
AddEdgesForwardOnly(nodes, startNodeId, endNodeId, segmentId, length) ==
  [nodes EXCEPT ![NodeIndex(nodes, startNodeId)].edges =
     Append(@, [targetNodeId |-> endNodeId, roadSegmentId |-> segmentId,
                weight |-> length])]

\* The two pushes of lines 171-181.
AddEdges(nodes, startNodeId, endNodeId, segmentId, length) ==
  LET forward ==
        [nodes EXCEPT ![NodeIndex(nodes, startNodeId)].edges =
           Append(@, [targetNodeId |-> endNodeId, roadSegmentId |-> segmentId,
                      weight |-> length])]
  IN [forward EXCEPT ![NodeIndex(forward, endNodeId)].edges =
        Append(@, [targetNodeId |-> startNodeId, roadSegmentId |-> segmentId,
                   weight |-> length])]

\* coordToNode.get(key) of a key that is not in the Map.
UndefinedNodeId == <<"undefined", 0>>

\* Third pass, one polyline, without the test for loops of line 165.
CreateEdgesWithLoops(b, coords) ==
  IF Len(coords) < 2 THEN b
  ELSE LET startKey == coordKey(coords[1][1], coords[1][2])
           endKey == coordKey(coords[Len(coords)][1], coords[Len(coords)][2])
           startNodeId == MapGet(b.coordToNode, startKey, UndefinedNodeId)
           endNodeId == MapGet(b.coordToNode, endKey, UndefinedNodeId)
       IN IF startNodeId = UndefinedNodeId \/ endNodeId = UndefinedNodeId THEN b
          ELSE [b EXCEPT
                  !.nodes = AddEdges(b.nodes, startNodeId, endNodeId,
                                     SegmentId(b.segmentCounter),
                                     lineStringLength(coords)),
                  !.segmentCounter = b.segmentCounter + 1,
                  !.edgeCount = b.edgeCount + 2]

\* Third pass, one polyline (lines 157-184).
CreateEdges(b, coords) ==
  IF Len(coords) < 2 THEN b
  ELSE LET startKey == coordKey(coords[1][1], coords[1][2])
           endKey == coordKey(coords[Len(coords)][1], coords[Len(coords)][2])
           startNodeId == MapGet(b.coordToNode, startKey, UndefinedNodeId)
           endNodeId == MapGet(b.coordToNode, endKey, UndefinedNodeId)
       IN IF startNodeId = UndefinedNodeId \/ endNodeId = UndefinedNodeId THEN b
          ELSE IF startNodeId = endNodeId THEN b
          ELSE [b EXCEPT
                  !.nodes = AddEdges(b.nodes, startNodeId, endNodeId,
                                     SegmentId(b.segmentCounter),
                                     lineStringLength(coords)),
                  !.segmentCounter = b.segmentCounter + 1,
                  !.edgeCount = b.edgeCount + 2]

RECURSIVE CreateEdgesOf(_, _, _)
CreateEdgesOf(b, lines, i) ==
  IF i > Len(lines) THEN b
  ELSE CreateEdgesOf(CreateEdges(b, lines[i]), lines, i + 1)

\* buildGraph(geojson) at the start of its first loop.
NewBuild(geojson) ==
  [pc |-> "firstPass", geojson |-> geojson, feature |-> 1,
   endpointCounts |-> <<>>, coordToNode |-> <<>>, nodes |-> <<>>,
   nodeIdCounter |-> 0, edgeCount |-> 0, segmentCounter |-> 0,
   metadata |-> [nodeCount |-> 0, edgeCount |-> 0]]

IdleBuilder == [NewBuild(<<>>) EXCEPT !.pc = "idle"]

\* One iteration of the loop of the first pass (lines 104-122).
FirstPass ==
  /\ bg.pc = "firstPass"
  /\ bg.feature <= Len(bg.geojson)
  /\ bg' = [bg EXCEPT
       !.endpointCounts =
          CountEndpointsOf(@, coordArrays(bg.geojson[bg.feature]), 1),
       !.feature = @ + 1]

\* The loop of the second pass (lines 126-138).
SecondPass ==
  /\ bg.pc = "firstPass"
  /\ bg.feature > Len(bg.geojson)
  /\ LET created == CreateNodes(bg.endpointCounts, 1,
                      [nodeIdCounter |-> bg.nodeIdCounter,
                       coordToNode |-> bg.coordToNode, nodes |-> bg.nodes])
     IN bg' = [bg EXCEPT !.pc = "thirdPass", !.feature = 1,
                         !.nodeIdCounter = created.nodeIdCounter,
                         !.coordToNode = created.coordToNode,
                         !.nodes = created.nodes]

\* One iteration of the loop of the third pass (lines 146-190).
ThirdPass ==
  /\ bg.pc = "thirdPass"
  /\ bg.feature <= Len(bg.geojson)
  /\ bg' = [CreateEdgesOf(bg, coordArrays(bg.geojson[bg.feature]), 1)
              EXCEPT !.feature = @ + 1]

\* return { nodes, metadata } (lines 194-201).
BuildReturn ==
  /\ bg.pc = "thirdPass"
  /\ bg.feature > Len(bg.geojson)
  /\ bg' = [bg EXCEPT !.pc = "returned",
                      !.metadata = [nodeCount |-> Len(bg.nodes),
                                    edgeCount |-> bg.edgeCount]]

BuilderNext ==
  \/ FirstPass /\ UNCHANGED <<loaderVars, solverVars, composerVars, layerVars, sessionVars, locatorVars, storeVars>>
  \/ SecondPass /\ UNCHANGED <<loaderVars, solverVars, composerVars, layerVars, sessionVars, locatorVars, storeVars>>
  \/ ThirdPass /\ UNCHANGED <<loaderVars, solverVars, composerVars, layerVars, sessionVars, locatorVars, storeVars>>
  \/ BuildReturn /\ UNCHANGED <<loaderVars, solverVars, composerVars, layerVars, sessionVars, locatorVars, storeVars>>

\* Coordinate pairs of the explored inputs: two that round to the same key,
\* one that rounds to "-0.00000", one apart from them.
BuilderCoords == {<<0, 0>>, <<1, 0>>, <<-1, 0>>, <<5, 3>>}

BuilderPolylines ==
  {<<c>> : c \in {<<0, 0>>}}
    \cup {<<c, d>> : c, d \in BuilderCoords}
    \cup {<<<<0, 0>>, <<5, 3>>, <<1, 0>>>>, <<<<-1, 0>>, <<5, 3>>, <<0, 0>>>>,
          <<<<-1, 0>>, <<0, 0>>, <<5, 3>>>>}

BuilderFeatures ==
  {LineString(coords) : coords \in BuilderPolylines}
    \cup {MultiLineString(<<>>),
          MultiLineString(<<<<<<-1, 0>>, <<5, 3>>>>, <<<<5, 3>>, <<-1, 0>>>>>>),
          MultiLineString(<<<<<<0, 0>>>>, <<<<0, 0>>, <<5, 3>>>>>>),
          PointGeometry,
          PolygonGeometry(<<<<<<-1, 0>>, <<5, 3>>, <<0, 0>>, <<-1, 0>>>>>>)}

FeatureCollections ==
  UNION {[1..n -> BuilderFeatures] : n \in 1..MaxFeatures}


\* ------------------------------------------------------------------------
\* The nearest-node locator on its own  (router.ts 141-157)
\* ------------------------------------------------------------------------
\* Where the nodes of the explored graphs can be.
LocatorNodePositions == {[lat |-> 0, lng |-> 4], [lat |-> 0, lng |-> 8], [lat |-> 2, lng |-> 6]}

\* The graphs with the node ids S at the given positions; edges play no
\* part in findNearestNode.
LocatorGraph(S, at) ==
  [loaded |-> TRUE,
   nodes |-> [n \in S |-> [id |-> n, position |-> at[n], edges |-> <<>>]]]

LocatorGraphs ==
  {LocatorGraph(S, at) : <<S, at>> \in
     UNION {{<<S, at>> : at \in [S -> LocatorNodePositions]} : S \in SUBSET NodeIdSet}}

LocatorPositions == {[lat |-> a, lng |-> b] : a \in {0, 2}, b \in 3..9}

IdleLocator == [pc |-> "idle", graph |-> NoGraph, position |-> [lat |-> 0, lng |-> 0],
                result |-> NoNode]

NewLocate(graph, position) ==
  [pc |-> "called", graph |-> graph, position |-> position, result |-> NoNode]

\* findNearestNode(graph, position), from call to return.
FindNearestNode ==
  /\ nn.pc = "called"
  /\ nn' = [nn EXCEPT !.pc = "returned",
                      !.result = findNearestNode(nn.graph, nn.position)]

LocatorNext ==
  FindNearestNode
    /\ UNCHANGED <<loaderVars, solverVars, composerVars, layerVars, sessionVars,
                   builderVars, storeVars>>


\* ------------------------------------------------------------------------
\* The application store: waypoints, filters, preferences
\* (store.ts 90-117, 139-206, 211-316)
\* ------------------------------------------------------------------------
RoadSurfaces == <<"paved", "loose", "rough", "overgrown", "decommissioned">>

RoadSurfaceSet == {RoadSurfaces[i] : i \in 1..Len(RoadSurfaces)}

defaultRoadFilters ==
  [roadClass |-> [c \in RoadClassSet |-> TRUE],
   roadSurface |-> [s \in RoadSurfaceSet |-> TRUE]]

defaultRoadPreferences == [types |-> <<"resource">>, surfaces |-> <<"loose">>]

\* The store of a freshly loaded page.  waypointIdCounter is the module-level
\* counter of store.ts; it lives as long as the page does.
InitialStore ==
  [waypoints |-> <<>>,
   waypointIdCounter |-> 0,
   roadFilters |-> defaultRoadFilters,
   roadPreferences |-> defaultRoadPreferences]

\* `wp-${n}`
WaypointId(n) == <<"wp", n>>

\* clearRoute that also restarts the id counter.
clearRouteRestartsIds(s) ==
  [s EXCEPT !.waypoints = <<>>, !.waypointIdCounter = 0]

\* `wp-${++waypointIdCounter}`: the id and the counter after the call.
generateWaypointId(counter) ==
  [id |-> WaypointId(counter + 1), counter |-> counter + 1]

\* Array.prototype.splice(start, deleteCount, ...items) on a copy.
Splice(seq, start, deleteCount, items) ==
  LET len == Len(seq)
      from == IF start < 0 THEN (IF len + start < 0 THEN 0 ELSE len + start)
              ELSE IF start > len THEN len ELSE start
      count == IF deleteCount < 0 THEN 0
               ELSE IF deleteCount > len - from THEN len - from
               ELSE deleteCount
  IN SubSeq(seq, 1, from) \o items \o SubSeq(seq, from + count + 1, len)

addWaypoint(s, position, type) ==
  LET fresh == generateWaypointId(s.waypointIdCounter)
  IN [s EXCEPT !.waypoints = Append(@, [id |-> fresh.id,
                                         position |-> position,
                                         type |-> type]),
               !.waypointIdCounter = fresh.counter]

insertWaypoint(s, position, afterIndex, type) ==
  LET fresh == generateWaypointId(s.waypointIdCounter)
      newWaypoint == [id |-> fresh.id, position |-> position, type |-> type]
  IN [s EXCEPT !.waypoints = Splice(@, afterIndex + 1, 0, <<newWaypoint>>),
               !.waypointIdCounter = fresh.counter]

removeWaypoint(s, id) ==
  LET Other(wp) == wp.id # id
  IN [s EXCEPT !.waypoints = SelectSeq(@, Other)]

updateWaypoint(s, id, position) ==
  [s EXCEPT !.waypoints =
     [i \in 1..Len(@) |->
        IF @[i].id = id THEN [@[i] EXCEPT !.position = position] ELSE @[i]]]

reorderWaypoints(s, fromIndex, toIndex) ==
  LET removed == s.waypoints[fromIndex + 1]
      rest == Splice(s.waypoints, fromIndex, 1, <<>>)
  IN [s EXCEPT !.waypoints = Splice(rest, toIndex, 0, <<removed>>)]

clearRoute(s) == [s EXCEPT !.waypoints = <<>>]

toggleRoadClass(s, roadClass) ==
  [s EXCEPT !.roadFilters.roadClass[roadClass] = ~@]

toggleRoadSurface(s, roadSurface) ==
  [s EXCEPT !.roadFilters.roadSurface[roadSurface] = ~@]

setRoadFilters(s, filters) == [s EXCEPT !.roadFilters = filters]

\* The toggle of a preference list: remove the first occurrence when the
\* value is listed, append it otherwise.
ToggleIn(list, value) ==
  LET index == indexOf(list, value)
  IN IF index >= 0 THEN Splice(list, index, 1, <<>>) ELSE Append(list, value)

toggleTypePreference(s, roadClass) ==
  [s EXCEPT !.roadPreferences.types = ToggleIn(@, roadClass)]

toggleSurfacePreference(s, surface) ==
  [s EXCEPT !.roadPreferences.surfaces = ToggleIn(@, surface)]

setRoadPreferences(s, prefs) == [s EXCEPT !.roadPreferences = prefs]

resetPreferences(s) == [s EXCEPT !.roadPreferences = defaultRoadPreferences]

\* ------------------------------------------------------------------------
\* The waypoint actions as the components call them
\* (Map.tsx 96-115, RouteLayer.tsx 393, 791, WaypointList.tsx 301, 349)
\* ------------------------------------------------------------------------
\* Clicked positions, in units of 0.000004 degrees.
StorePositions == {[lat |-> 1, lng |-> -1], [lat |-> 5, lng |-> 3]}

IssuedIds == {WaypointId(n) : n \in 1..MaxIds}

AddWaypoint(position) ==
  /\ st.waypointIdCounter < MaxIds
  /\ Len(st.waypoints) < MaxStoreWaypoints
  /\ st' = addWaypoint(st, position, "primary")
  /\ UNCHANGED <<url, opened>>

InsertWaypoint(position, afterIndex) ==
  /\ st.waypointIdCounter < MaxIds
  /\ Len(st.waypoints) < MaxStoreWaypoints
  /\ afterIndex \in 0..(Len(st.waypoints) - 1)
  /\ st' = insertWaypoint(st, position, afterIndex, "anchor")
  /\ UNCHANGED <<url, opened>>

RemoveWaypoint(id) ==
  /\ st' = removeWaypoint(st, id)
  /\ UNCHANGED <<url, opened>>

UpdateWaypoint(id, position) ==
  /\ st' = updateWaypoint(st, id, position)
  /\ UNCHANGED <<url, opened>>

ReorderWaypoints(fromIndex, toIndex) ==
  /\ fromIndex \in 0..(Len(st.waypoints) - 1)
  /\ toIndex \in 0..(Len(st.waypoints) - 1)
  /\ st' = reorderWaypoints(st, fromIndex, toIndex)
  /\ UNCHANGED <<url, opened>>

ClearRoute ==
  /\ st' = clearRoute(st)
  /\ UNCHANGED <<url, opened>>

WaypointsNext ==
  \/ \E position \in StorePositions :
       AddWaypoint(position)
         /\ UNCHANGED <<loaderVars, solverVars, composerVars, layerVars, sessionVars, builderVars, locatorVars>>
  \/ \E position \in StorePositions, afterIndex \in 0..(MaxStoreWaypoints - 1) :
       InsertWaypoint(position, afterIndex)
         /\ UNCHANGED <<loaderVars, solverVars, composerVars, layerVars, sessionVars, builderVars, locatorVars>>
  \/ \E id \in IssuedIds :
       RemoveWaypoint(id)
         /\ UNCHANGED <<loaderVars, solverVars, composerVars, layerVars, sessionVars, builderVars, locatorVars>>
  \/ \E id \in IssuedIds, position \in StorePositions :
       UpdateWaypoint(id, position)
         /\ UNCHANGED <<loaderVars, solverVars, composerVars, layerVars, sessionVars, builderVars, locatorVars>>
  \/ \E fromIndex \in 0..(MaxStoreWaypoints - 1), toIndex \in 0..(MaxStoreWaypoints - 1) :
       ReorderWaypoints(fromIndex, toIndex)
         /\ UNCHANGED <<loaderVars, solverVars, composerVars, layerVars, sessionVars, builderVars, locatorVars>>
  \/ ClearRoute
       /\ UNCHANGED <<loaderVars, solverVars, composerVars, layerVars, sessionVars, builderVars, locatorVars>>

\* ------------------------------------------------------------------------
\* URL state  (url-state.ts 17-409)
\* Texts are sequences of one-character strings.  The w parameter is kept
\* as the list of its comma-separated parts.  The view parameters z, c, p, b
\* are present or absent; their values are not part of the model.
\* ------------------------------------------------------------------------
ROAD_CLASS_BITS == [c \in RoadClassSet |-> indexOf(RoadClasses, c)]

ROAD_SURFACE_BITS == [s \in RoadSurfaceSet |-> 6 + indexOf(RoadSurfaces, s)]

ALL_FILTERS_ENABLED == 2047

ROAD_CLASS_CODES ==
  [c \in RoadClassSet |->
     CASE c = "highway" -> "h"
       [] c = "arterial" -> "a"
       [] c = "collector" -> "c"
       [] c = "local" -> "l"
       [] c = "resource" -> "r"
       [] c = "decommissioned" -> "d"]

ROAD_SURFACE_CODES ==
  [s \in RoadSurfaceSet |->
     CASE s = "paved" -> "p"
       [] s = "loose" -> "l"
       [] s = "rough" -> "r"
       [] s = "overgrown" -> "o"
       [] s = "decommissioned" -> "d"]

\* A lookup that finds nothing gives undefined.
Undefined == "undefined"

CODE_TO_ROAD_CLASS(code) ==
  IF \E c \in RoadClassSet : ROAD_CLASS_CODES[c] = code
    THEN CHOOSE c \in RoadClassSet : ROAD_CLASS_CODES[c] = code
    ELSE Undefined

CODE_TO_ROAD_SURFACE(code) ==
  IF \E s \in RoadSurfaceSet : ROAD_SURFACE_CODES[s] = code
    THEN CHOOSE s \in RoadSurfaceSet : ROAD_SURFACE_CODES[s] = code
    ELSE Undefined

\* Array.prototype.join
RECURSIVE Join(_, _)
Join(parts, separator) ==
  IF parts = <<>> THEN <<>>
  ELSE IF Len(parts) = 1 THEN parts[1]
  ELSE parts[1] \o <<separator>> \o Join(Tail(parts), separator)

\* String.prototype.split on a one-character separator: the empty text
\* gives one empty part.
RECURSIVE SplitFrom(_, _, _, _)
SplitFrom(text, separator, i, part) ==
  IF i > Len(text) THEN <<part>>
  ELSE IF text[i] = separator
    THEN <<part>> \o SplitFrom(text, separator, i + 1, <<>>)
    ELSE SplitFrom(text, separator, i + 1, Append(part, text[i]))

Split(text, separator) == SplitFrom(text, separator, 1, <<>>)

encodePreferences(prefs) ==
  LET typeCodes == [i \in 1..Len(prefs.types) |-> ROAD_CLASS_CODES[prefs.types[i]]]
      surfaceCodes ==
        [i \in 1..Len(prefs.surfaces) |-> ROAD_SURFACE_CODES[prefs.surfaces[i]]]
      parts == (IF typeCodes # <<>> THEN <<(<<"t">> \o typeCodes)>> ELSE <<>>)
               \o (IF surfaceCodes # <<>> THEN <<(<<"s">> \o surfaceCodes)>> ELSE <<>>)
  IN Join(parts, ".")

\* codes.map((c) => CODE_TO_ROAD_CLASS[c]).filter((t) => t !== undefined)
DecodeTypeCodes(codes) ==
  LET Defined(x) == x # Undefined
  IN SelectSeq([i \in 1..Len(codes) |-> CODE_TO_ROAD_CLASS(codes[i])], Defined)

\* codes.map((c) => CODE_TO_ROAD_SURFACE[c]).filter((s) => s !== undefined)
DecodeSurfaceCodes(codes) ==
  LET Defined(x) == x # Undefined
  IN SelectSeq([i \in 1..Len(codes) |-> CODE_TO_ROAD_SURFACE(codes[i])], Defined)

\* The loop over the parts of decodePreferences.
RECURSIVE DecodeParts(_, _, _)
DecodeParts(parts, i, prefs) ==
  IF i > Len(parts) THEN prefs
  ELSE LET part == parts[i]
       IN IF part # <<>> /\ part[1] = "t"
            THEN DecodeParts(parts, i + 1,
                   [prefs EXCEPT !.types = DecodeTypeCodes(Tail(part))])
          ELSE IF part # <<>> /\ part[1] = "s"
            THEN DecodeParts(parts, i + 1,
                   [prefs EXCEPT !.surfaces = DecodeSurfaceCodes(Tail(part))])
          ELSE DecodeParts(parts, i + 1, prefs)

decodePreferences(encoded) ==
  IF encoded = <<>> THEN [types |-> <<>>, surfaces |-> <<>>]
  ELSE DecodeParts(Split(encoded, "."), 1, [types |-> <<>>, surfaces |-> <<>>])

DEFAULT_PREFERENCES == [types |-> <<"resource">>, surfaces |-> <<"loose">>]

preferencesAreDefault(prefs) ==
  /\ Len(prefs.types) = Len(DEFAULT_PREFERENCES.types)
  /\ \A i \in 1..Len(prefs.types) : prefs.types[i] = DEFAULT_PREFERENCES.types[i]
  /\ Len(prefs.surfaces) = Len(DEFAULT_PREFERENCES.surfaces)
  /\ \A i \in 1..Len(prefs.surfaces) :
       prefs.surfaces[i] = DEFAULT_PREFERENCES.surfaces[i]

\* 1 << bit
Bit(bit) == 2 ^ bit

\* (bitfield & (1 << bit)) !== 0, for a bitfield that is not negative.
HasBit(bitfield, bit) == (bitfield \div Bit(bit)) % 2 = 1

\* The sum of 1 << bits[name] over the enabled names of a list; the bits
\* are distinct, so the sum is the bitwise or.
RECURSIVE EncodeBits(_, _, _, _)
EncodeBits(names, enabled, bits, i) ==
  IF i > Len(names) THEN 0
  ELSE (IF enabled[names[i]] THEN Bit(bits[names[i]]) ELSE 0)
       + EncodeBits(names, enabled, bits, i + 1)

encodeFilters(filters) ==
  EncodeBits(RoadClasses, filters.roadClass, ROAD_CLASS_BITS, 1)
    + EncodeBits(RoadSurfaces, filters.roadSurface, ROAD_SURFACE_BITS, 1)

decodeFilters(bitfield) ==
  [roadClass |-> [c \in RoadClassSet |-> HasBit(bitfield, ROAD_CLASS_BITS[c])],
   roadSurface |-> [s \in RoadSurfaceSet |-> HasBit(bitfield, ROAD_SURFACE_BITS[s])]]

DecimalDigits == <<"0", "1", "2", "3", "4", "5", "6", "7", "8", "9">>

\* Number.prototype.toString of an integer that is not negative.
RECURSIVE NumberToString(_)
NumberToString(n) ==
  IF n < 10 THEN <<DecimalDigits[n + 1]>>
  ELSE NumberToString(n \div 10) \o <<DecimalDigits[(n % 10) + 1]>>

NaN == -1

\* parseInt(text, 10) of a text without sign: the value of its leading
\* digits, NaN when it starts with no digit.
RECURSIVE ParseIntFrom(_, _, _)
ParseIntFrom(text, i, value) ==
  IF i > Len(text) \/ indexOf(DecimalDigits, text[i]) < 0
    THEN (IF i = 1 THEN NaN ELSE value)
    ELSE ParseIntFrom(text, i + 1, 10 * value + indexOf(DecimalDigits, text[i]))

parseInt(text) == ParseIntFrom(text, 1, 0)

\* One part of the w parameter: `${prefix}${x.toFixed(5)}` with the prefix
\* "a:" or nothing.
CoordinatePart(anchor, x) == [anchor |-> anchor, number |-> ToFixedString(x)]

\* The parts of the text serializeWaypointsToURL returns (joined with ",").
RECURSIVE serializeWaypointsToURL(_)
serializeWaypointsToURL(wps) ==
  IF wps = <<>> THEN <<>>
  ELSE <<CoordinatePart(Head(wps).type = "anchor", Head(wps).position.lat),
         CoordinatePart(FALSE, Head(wps).position.lng)>>
       \o serializeWaypointsToURL(Tail(wps))

\* The loop of parseWaypointsFromURL over param.split(','), from index i.
\* Number() of a part that still has a prefix is NaN, and the pair is skipped.
RECURSIVE ParseWaypointsFrom(_, _)
ParseWaypointsFrom(parts, i) ==
  IF i >= Len(parts) THEN <<>>
  ELSE LET latPart == parts[i]
           lngPart == parts[i + 1]
           type == IF latPart.anchor THEN "anchor" ELSE "primary"
           parsed == [position |-> [lat |-> ParseNumber(latPart.number),
                                    lng |-> ParseNumber(lngPart.number)],
                      type |-> type]
       IN (IF lngPart.anchor THEN <<>> ELSE <<parsed>>)
          \o ParseWaypointsFrom(parts, i + 2)

parseWaypointsFromURL(param) == ParseWaypointsFrom(param, 1)

\* No search parameters.
NoURL == [has |-> {}, w |-> <<>>, f |-> <<>>, pref |-> <<>>]

\* URLSearchParams.set
SetParam(params, name, value) ==
  [params EXCEPT !.has = @ \cup {name}, ![name] = value]

\* buildShareURL, params.waypoints being the waypoints of the store with
\* their position and type.
buildShareURL(params) ==
  LET waypointsStr == serializeWaypointsToURL(params.waypoints)
      withW == IF waypointsStr # <<>> THEN SetParam(NoURL, "w", waypointsStr)
               ELSE NoURL
      withView == [withW EXCEPT !.has = @ \cup {"z", "c"}]
      filterBitfield == encodeFilters(params.filters)
      withF == IF filterBitfield # ALL_FILTERS_ENABLED
                 THEN SetParam(withView, "f", NumberToString(filterBitfield))
                 ELSE withView
      prefsStr == encodePreferences(params.preferences)
  IN IF ~preferencesAreDefault(params.preferences) /\ prefsStr # <<>>
       THEN SetParam(withF, "pref", prefsStr)
       ELSE withF

\* null
NoValue == [given |-> FALSE]

\* parseStateFromURL: waypoints, filters and preferences of the result.
parseStateFromURL(search) ==
  LET filterBitfield == parseInt(IF search.f = <<>> THEN <<"0">> ELSE search.f)
  IN [waypoints |-> IF "w" \in search.has THEN parseWaypointsFromURL(search.w)
                    ELSE <<>>,
      filters |-> IF "f" \in search.has /\ filterBitfield # NaN
                    THEN [given |-> TRUE, value |-> decodeFilters(filterBitfield)]
                    ELSE NoValue,
      preferences |-> IF "pref" \in search.has
                        THEN [given |-> TRUE, value |-> decodePreferences(search.pref)]
                        ELSE NoValue]

\* urlState.waypoints.forEach((position) => { addWaypoint(position); }):
\* each element of the parsed list is passed as the position, and the type
\* takes its default.
RECURSIVE AddEach(_, _)
AddEach(s, elements) ==
  IF elements = <<>> THEN s
  ELSE AddEach(addWaypoint(s, Head(elements), "primary"), Tail(elements))

\* The restore effect of useURLSync on the store s.
RestoreFromURL(s, urlState) ==
  LET withWaypoints == AddEach(s, urlState.waypoints)
      withFilters == IF urlState.filters.given
                       THEN setRoadFilters(withWaypoints, urlState.filters.value)
                       ELSE withWaypoints
  IN IF urlState.preferences.given
       THEN setRoadPreferences(withFilters, urlState.preferences.value)
       ELSE withFilters

\* ------------------------------------------------------------------------
\* The preference actions and a page load with a given search text
\* (store.ts 275-316, url-state.ts 463-506)
\* ------------------------------------------------------------------------
\* The pref parameter of the loaded URLs: "tr", "trr", "th.sl", "sl",
\* "txh", "trrrrrrh" and the empty text.
PreferenceTexts ==
  {<<"t", "r">>, <<"t", "r", "r">>, <<"t", "h", ".", "s", "l">>, <<"s", "l">>,
   <<"t", "x", "h">>, <<"t", "r", "r", "r", "r", "r", "r", "h">>, <<>>}

\* The classes of the preference panel that get clicked.
ToggledClasses == {"resource", "highway", "arterial", "local"}

ToggleTypePreference(roadClass) ==
  /\ st' = toggleTypePreference(st, roadClass)
  /\ UNCHANGED <<url, opened>>

ResetPreferences ==
  /\ st' = resetPreferences(st)
  /\ UNCHANGED <<url, opened>>

\* The page is loaded with ?pref=<text>: the store starts over and the
\* restore effect runs once.
LoadPage(text) ==
  /\ url' = SetParam(NoURL, "pref", text)
  /\ st' = RestoreFromURL(InitialStore, parseStateFromURL(url'))
  /\ UNCHANGED opened

PreferencesNext ==
  \/ \E roadClass \in ToggledClasses :
       ToggleTypePreference(roadClass)
         /\ UNCHANGED <<loaderVars, solverVars, composerVars, layerVars, sessionVars, builderVars, locatorVars>>
  \/ ResetPreferences
       /\ UNCHANGED <<loaderVars, solverVars, composerVars, layerVars, sessionVars, builderVars, locatorVars>>
  \/ \E text \in PreferenceTexts :
       LoadPage(text)
         /\ UNCHANGED <<loaderVars, solverVars, composerVars, layerVars, sessionVars, builderVars, locatorVars>>

\* ------------------------------------------------------------------------
\* Sharing: the URL built from one store is opened in a new page
\* (url-state.ts 309-357, 362-409, 463-506)
\* ------------------------------------------------------------------------
\* The page that has not been opened yet: isInitialized is the ref of
\* useURLSync, store is the store of that page.
UnopenedPage == [isInitialized |-> FALSE, store |-> InitialStore]

WaypointTypes == {"primary", "anchor"}

ShareWaypointLists ==
  UNION {[1..n -> [position : StorePositions, type : WaypointTypes]] :
           n \in 0..(MaxStoreWaypoints - 1)}

ShareFilters ==
  {defaultRoadFilters,
   toggleRoadClass(InitialStore, "highway").roadFilters,
   toggleRoadSurface(toggleRoadClass(InitialStore, "decommissioned"),
                     "rough").roadFilters,
   decodeFilters(0)}

SharePreferences ==
  {defaultRoadPreferences,
   [types |-> <<>>, surfaces |-> <<>>],
   [types |-> <<"resource", "highway">>, surfaces |-> <<"loose">>],
   [types |-> <<>>, surfaces |-> <<"loose">>],
   [types |-> <<"highway">>, surfaces |-> <<>>]}

\* The store after the waypoints of a list were added one by one.
RECURSIVE AddAll(_, _)
AddAll(s, list) ==
  IF list = <<>> THEN s
  ELSE AddAll(addWaypoint(s, Head(list).position, Head(list).type), Tail(list))

ShareStores ==
  {setRoadPreferences(setRoadFilters(AddAll(InitialStore, list), filters), prefs) :
     list \in ShareWaypointLists, filters \in ShareFilters, prefs \in SharePreferences}

\* The URL of the sharing page is set to buildShareURL of its store.
UpdateURL ==
  /\ "z" \notin url.has
  /\ url' = buildShareURL([waypoints |-> st.waypoints,
                           filters |-> st.roadFilters,
                           preferences |-> st.roadPreferences])
  /\ UNCHANGED <<st, opened>>

\* The shared URL is opened in a new page: the restore effect runs once.
OpenSharedURL ==
  /\ "z" \in url.has
  /\ ~opened.isInitialized
  /\ opened' = [isInitialized |-> TRUE,
                store |-> RestoreFromURL(opened.store, parseStateFromURL(url))]
  /\ UNCHANGED <<st, url>>

ShareNext ==
  \/ UpdateURL
       /\ UNCHANGED <<loaderVars, solverVars, composerVars, layerVars, sessionVars, builderVars, locatorVars>>
  \/ OpenSharedURL
       /\ UNCHANGED <<loaderVars, solverVars, composerVars, layerVars, sessionVars, builderVars, locatorVars>>


\* ------------------------------------------------------------------------
\* The route effect of RouteLayer  (RouteLayer.tsx 474-568, store.ts 201-208)
\* ------------------------------------------------------------------------
\* Waypoint lists the store can hold, as lists of waypoint ids.
LayerWaypointLists == {<<>>, <<"w1">>, <<"w1", "w2">>, <<"w2", "w1">>, <<"w1", "w3", "w2">>}

\* Preference values the store can hold.
LayerPreferences == {"resourceFirst", "noPreference"}

\* What the pending calculateRoute call of a run can do: resolve with a
\* result, or reject (findNearestNode throws on a graph without nodes map).
RouteOutcomes == {"result", "rejected"}

\* The route a run computes for the inputs of its closure; "run" records
\* which run of the effect produced the value.
RouteOf(run, i) ==
  [waypoints |-> run.waypoints, roadPreferences |-> run.roadPreferences, run |-> i]

NoRoute == [waypoints |-> <<>>, roadPreferences |-> Null, run |-> 0]

\* The effect body: "let cancelled = false" and the call of updateRoute up to
\* its first await (lines 476-494).  With fewer than two waypoints the route
\* is cleared synchronously.  i is the number of the new run.
StartRun(w, p, i, previousRuns) ==
  IF Len(w) < 2
    THEN /\ runs' = Append(previousRuns,
              [waypoints |-> w, roadPreferences |-> p, cancelled |-> FALSE,
               pc |-> "cleared"])
         /\ routePath' = [NoRoute EXCEPT !.run = i]
         /\ segmentsRef' = [NoRoute EXCEPT !.run = i]
         /\ calculatedRoute' = [NoRoute EXCEPT !.run = i]
    ELSE /\ runs' = Append(previousRuns,
              [waypoints |-> w, roadPreferences |-> p, cancelled |-> FALSE,
               pc |-> "pending"])
         /\ UNCHANGED <<routePath, segmentsRef, calculatedRoute>>

\* A cleanup that leaves the cancelled flag of the previous run alone.
CleanupKeepsFlag(rs) == rs

\* The cleanup of the previous run (lines 565-567): cancelled = true.
Cleanup(rs) ==
  IF rs = <<>> THEN rs ELSE [rs EXCEPT ![Len(rs)].cancelled = TRUE]

\* The store's waypoint list changes and RouteLayer renders it: the cleanup
\* of the previous run, then the effect body for the new list.  The change
\* and the re-run of the effect are one step: React's scheduling between
\* the store's set and the commit of the render is not part of this code.
SetWaypoints(w) ==
  /\ Len(runs) < MaxRuns
  /\ waypoints' = w
  /\ UNCHANGED roadPreferences
  /\ StartRun(w, roadPreferences, Len(runs) + 1, Cleanup(runs))

\* The store's preferences change and RouteLayer renders them.
SetRoadPreferences(p) ==
  /\ Len(runs) < MaxRuns
  /\ roadPreferences' = p
  /\ UNCHANGED waypoints
  /\ StartRun(waypoints, p, Len(runs) + 1, Cleanup(runs))

\* The continuation of updateRoute after "await calculateRoute" without the
\* check of the cancelled flag.
RouteSettleNoCancelCheck(i, outcome) ==
  /\ i \in 1..Len(runs)
  /\ runs[i].pc = "pending"
  /\ IF outcome = "rejected"
       THEN /\ runs' = [runs EXCEPT ![i].pc = "rejected"]
            /\ UNCHANGED <<routePath, segmentsRef, calculatedRoute>>
       ELSE /\ runs' = [runs EXCEPT ![i].pc = "applied"]
            /\ routePath' = RouteOf(runs[i], i)
            /\ segmentsRef' = RouteOf(runs[i], i)
            /\ calculatedRoute' = RouteOf(runs[i], i)
  /\ UNCHANGED <<waypoints, roadPreferences>>

\* The continuation of updateRoute after "await calculateRoute" (lines
\* 494-560).  A rejected call ends updateRoute without a write.  A result is
\* dropped when the run was cancelled, else it is written to routePath,
\* segmentsRef and calculatedRoute.  calculateRoute gives a non-empty path
\* for two or more waypoints, so the branch of lines 536-560 is not taken.
RouteSettle(i, outcome) ==
  /\ i \in 1..Len(runs)
  /\ runs[i].pc = "pending"
  /\ IF outcome = "rejected"
       THEN /\ runs' = [runs EXCEPT ![i].pc = "rejected"]
            /\ UNCHANGED <<routePath, segmentsRef, calculatedRoute>>
       ELSE IF runs[i].cancelled
         THEN /\ runs' = [runs EXCEPT ![i].pc = "discarded"]
              /\ UNCHANGED <<routePath, segmentsRef, calculatedRoute>>
         ELSE /\ runs' = [runs EXCEPT ![i].pc = "applied"]
              /\ routePath' = RouteOf(runs[i], i)
              /\ segmentsRef' = RouteOf(runs[i], i)
              /\ calculatedRoute' = RouteOf(runs[i], i)
  /\ UNCHANGED <<waypoints, roadPreferences>>

LayerNext ==
  \/ \E w \in LayerWaypointLists :
       SetWaypoints(w) /\ UNCHANGED <<loaderVars, solverVars, composerVars, sessionVars, builderVars, locatorVars, storeVars>>
  \/ \E p \in LayerPreferences :
       SetRoadPreferences(p) /\ UNCHANGED <<loaderVars, solverVars, composerVars, sessionVars, builderVars, locatorVars, storeVars>>
  \/ \E i \in 1..MaxRuns, o \in RouteOutcomes :
       RouteSettle(i, o) /\ UNCHANGED <<loaderVars, solverVars, composerVars, sessionVars, builderVars, locatorVars, storeVars>>


\* ------------------------------------------------------------------------
\* Properties of the graph loader
\* ------------------------------------------------------------------------
FetchFailures == {"networkError", "notOk", "unparseable"}

\* C1: loadGraph is single-flight.  Whatever number of calls is made while
\* the first load has not settled, exactly one fetch has been issued, every
\* such call awaits that one loading promise, and once it has its outcome
\* that outcome is the outcome of that loading promise.
C1_SingleFlight ==
  /\ (\E c \in CallerIds : callers[c].pc # "idle") => fetchCount = 1
  /\ \A c \in CallerIds :
       (callers[c].pc # "idle" /\ callers[c].early) =>
         /\ callers[c].awaits = 1
         /\ callers[c].pc = "done" => callers[c].promise = loads[1].promise

\* Two callers that both called before the load settled have both received
\* the loaded graph.
C1_Witness ==
  \E c, d \in CallerIds :
    /\ c # d
    /\ callers[c].early /\ callers[d].early
    /\ callers[c].pc = "done" /\ callers[d].pc = "done"
    /\ callers[c].promise = Fulfilled("graphOk")
    /\ callers[d].promise = Fulfilled("graphOk")
    /\ fetchCount = 1

\* C5: when the fetch fails by network error, by a response that is not ok
\* or by a body that does not parse, the loading promise and the promise of
\* every caller fulfil with null; no promise of the loader is ever rejected.
C5_FailSoft ==
  /\ \A i \in 1..Len(loads) : loads[i].promise.state # "rejected"
  /\ \A c \in CallerIds : callers[c].promise.state # "rejected"
  /\ \A i \in 1..Len(loads) :
       loads[i].cause \in FetchFailures =>
         /\ loads[i].promise = Fulfilled(Null)
         /\ \A c \in CallerIds :
              (callers[c].pc = "done" /\ callers[c].awaits = i) =>
                callers[c].promise = Fulfilled(Null)

\* A caller has received null after a network error, and another one after
\* calling again later.
C5_Witness ==
  \E c, d \in CallerIds :
    /\ callers[c].pc = "done" /\ callers[c].awaits = 1 /\ callers[c].early
    /\ callers[d].pc = "done" /\ callers[d].awaits = 1 /\ ~callers[d].early
    /\ loads[1].cause = "networkError"
    /\ callers[c].promise = Fulfilled(Null)
    /\ callers[d].promise = Fulfilled(Null)

\* C6: a payload that parses but violates the schema is treated like a
\* fetch failure: the load gives null, every call gives null, and no graph
\* is left in the cache.
C6_SchemaViolationFailsSoft ==
  \A i \in 1..Len(loads) :
    (loads[i].pc = "settled" /\ SchemaViolation(loads[i].cause)) =>
      /\ loads[i].promise = Fulfilled(Null)
      /\ graphCache = Null
      /\ \A c \in CallerIds :
           callers[c].pc = "done" => callers[c].promise = Fulfilled(Null)

\* C7: the graph is fetched at most once.  A call made after the load has
\* settled issues no fetch; when the fetch succeeded and left a graph in the
\* cache the call returns that cached graph, and when the fetch failed
\* (network error, response not ok, unparseable body) it gives null.
C7_FetchedOnce ==
  /\ fetchCount <= 1
  /\ \A c \in CallerIds :
       (callers[c].pc # "idle" /\ ~callers[c].early) =>
         /\ callers[c].awaits \in {0, 1}
         /\ Truthy(graphCache) =>
              /\ callers[c].pc = "done"
              /\ callers[c].awaits = 0
              /\ callers[c].promise = Fulfilled(graphCache)
         /\ (loads[1].cause \in FetchFailures /\ callers[c].pc = "done") =>
              callers[c].promise = Fulfilled(Null)

\* Calls made after a successful load and after a failed load have returned.
C7_WitnessCached ==
  \E c, d \in CallerIds :
    /\ c # d
    /\ ~callers[c].early /\ callers[c].pc = "done"
    /\ ~callers[d].early /\ callers[d].pc = "done"
    /\ callers[c].promise = Fulfilled("graphOk")
    /\ callers[d].promise = Fulfilled("graphOk")

\* ------------------------------------------------------------------------
\* Properties of the solver
\* ------------------------------------------------------------------------
RECURSIVE SumWeights(_, _)
SumWeights(edges, i) ==
  IF i > Len(edges) THEN 0 ELSE edges[i].weight + SumWeights(edges, i + 1)

\* Cost of an edge: its weight, or its weight times the preference
\* multiplier (in tenths).
EdgeCost(edge, preferences, weighted) ==
  IF weighted THEN edge.weight * getPreferenceWeight(edge, preferences)
  ELSE edge.weight

RECURSIVE SumCosts(_, _, _, _)
SumCosts(edges, preferences, weighted, i) ==
  IF i > Len(edges) THEN 0
  ELSE EdgeCost(edges[i], preferences, weighted)
       + SumCosts(edges, preferences, weighted, i + 1)

\* All edges of a graph as <<source, edge>> pairs.
EdgesOf(graph) ==
  UNION {{<<m, graph.nodes[m].edges[k]>> : k \in 1..Len(graph.nodes[m].edges)} :
         m \in DOMAIN graph.nodes}

SetMin(S) == CHOOSE x \in S : \A y \in S : x <= y

\* The least cost of a path from the start to every node, by as many rounds
\* of relaxing every edge as the graph has nodes (independent of the
\* solver's queue and visited set).
RelaxAll(graph, d, preferences, weighted) ==
  [n \in DOMAIN d |->
     SetMin({d[n]} \cup
            {d[pe[1]] + EdgeCost(pe[2], preferences, weighted) :
               pe \in {x \in EdgesOf(graph) :
                         x[2].targetNodeId = n /\ d[x[1]] < Infinity}})]

RECURSIVE RelaxRounds(_, _, _, _, _)
RelaxRounds(graph, d, preferences, weighted, k) ==
  IF k = 0 THEN d
  ELSE RelaxRounds(graph, RelaxAll(graph, d, preferences, weighted),
                   preferences, weighted, k - 1)

LeastCosts(graph, startNodeId, preferences, weighted) ==
  RelaxRounds(graph,
              [n \in DOMAIN graph.nodes |-> IF n = startNodeId THEN 0 ELSE Infinity],
              preferences, weighted, Cardinality(DOMAIN graph.nodes))

\* nodeIds and edges describe a path of the graph from start to end.
IsPath(graph, startNodeId, endNodeId, nodeIds, edges) ==
  /\ Len(nodeIds) = Len(edges) + 1
  /\ nodeIds[1] = startNodeId
  /\ nodeIds[Len(nodeIds)] = endNodeId
  /\ \A k \in 1..Len(edges) :
       /\ <<nodeIds[k], edges[k]>> \in EdgesOf(graph)
       /\ edges[k].targetNodeId = nodeIds[k + 1]

UnbiasedPreferences(preferences) ==
  ~preferences.given \/ preferences.types = <<>>

\* C2: when the end node is reachable, dijkstra returns a path of the graph
\* from start to end whose preference-weighted cost is the least cost of any
\* such path; without preferences the returned distance is the least true
\* distance and is the summed weight of the returned path.
C2_MinimalCost ==
  dj.pc = "done" =>
    LET least == LeastCosts(dj.graph, dj.startNodeId, dj.preferences, TRUE)
        shortest == LeastCosts(dj.graph, dj.startNodeId, dj.preferences, FALSE)
    IN /\ least[dj.endNodeId] < Infinity => dj.result.found
       /\ dj.result.found =>
            /\ IsPath(dj.graph, dj.startNodeId, dj.endNodeId,
                      dj.result.nodeIds, dj.edges)
            /\ SumCosts(dj.edges, dj.preferences, TRUE, 1) = least[dj.endNodeId]
            /\ UnbiasedPreferences(dj.preferences) =>
                 /\ dj.result.distance = shortest[dj.endNodeId]
                 /\ dj.result.distance = SumWeights(dj.edges, 1)

\* The solver has returned a two-edge path although a direct edge exists,
\* because the direct edge costs more.
C2_Witness ==
  /\ dj.pc = "done"
  /\ dj.result.found
  /\ Len(dj.edges) = 2
  /\ \E pe \in EdgesOf(dj.graph) :
       /\ pe[1] = dj.startNodeId
       /\ pe[2].targetNodeId = dj.endNodeId
       /\ EdgeCost(pe[2], dj.preferences, TRUE)
            > SumCosts(dj.edges, dj.preferences, TRUE, 1)

\* C3: the two distance maps move in lock-step: at every point of the
\* search a node without predecessor has both distances at their initial
\* value, and a node with a predecessor has both distances equal to the
\* predecessor's plus the stored edge (weighted and true respectively).  The
\* returned distance is the summed true weight of the edges of the returned
\* path, not its preference-weighted cost.
C3_TrueDistance ==
  dj.pc \in {"loop", "reconstruct", "done"} =>
    /\ \A n \in DOMAIN dj.distances :
         LET prev == dj.previous[n]
         IN IF prev.nodeId = Null
              THEN /\ dj.distances[n] = (IF n = dj.startNodeId THEN 0 ELSE Infinity)
                   /\ dj.actualDistances[n] = dj.distances[n]
              ELSE /\ dj.distances[n] =
                        dj.distances[prev.nodeId]
                          + EdgeCost(prev.edge, dj.preferences, TRUE)
                   /\ dj.actualDistances[n] =
                        dj.actualDistances[prev.nodeId] + prev.edge.weight
    /\ (dj.pc = "done" /\ dj.result.found) =>
         /\ IsPath(dj.graph, dj.startNodeId, dj.endNodeId,
                   dj.result.nodeIds, dj.edges)
         /\ dj.result.distance = SumWeights(dj.edges, 1)

\* The solver has returned a path whose true length differs from its
\* weighted cost and from the least true distance.
C3_Witness ==
  /\ dj.pc = "done"
  /\ dj.result.found
  /\ Len(dj.edges) = 2
  /\ dj.result.distance * WeightScale # dj.distances[dj.endNodeId]
  /\ dj.result.distance >
       LeastCosts(dj.graph, dj.startNodeId, dj.preferences, FALSE)[dj.endNodeId]

\* The nodes that can be reached from the nodes of S along edges.
RECURSIVE ReachableFrom(_, _)
ReachableFrom(graph, S) ==
  LET next == S \cup {pe[2].targetNodeId :
                        pe \in {x \in EdgesOf(graph) : x[1] \in S}}
  IN IF next = S THEN S ELSE ReachableFrom(graph, next)

\* C13: dijkstra returns "no path" exactly when the end node cannot be
\* reached from the start node along edges; when start and end are the same
\* node it returns the path of that one node with distance 0.
C13_NullIffUnreachable ==
  dj.pc = "done" =>
    /\ dj.result.found <=>
         dj.endNodeId \in ReachableFrom(dj.graph, {dj.startNodeId})
    /\ dj.startNodeId = dj.endNodeId =>
         /\ dj.result.found
         /\ dj.result.nodeIds = <<dj.startNodeId>>
         /\ dj.result.path = <<dj.graph.nodes[dj.startNodeId].position>>
         /\ dj.result.distance = 0

\* dijkstra has returned "no path" after a search that left the start node
\* along an edge and visited a second node.
C13_Witness ==
  /\ dj.pc = "done"
  /\ ~dj.result.found
  /\ Cardinality(dj.visited) = 2
  /\ dj.graph.nodes[dj.endNodeId].edges # <<>>

\* The loop of lines 239-274 without the break of line 248: the search
\* goes on until the queue is empty.
DijkstraIterationToEmptyQueue(s) ==
  IF s.queue = <<>> THEN [s EXCEPT !.pc = "reconstruct"]
  ELSE
    LET currentId == Head(s.queue).item
        popped == [s EXCEPT !.queue = Tail(@)]
    IN IF currentId \in s.visited THEN popped
       ELSE RelaxEdges([popped EXCEPT !.visited = @ \cup {currentId}],
                       currentId, s.graph.nodes[currentId].edges, 1)

RECURSIVE DijkstraRunToEmptyQueue(_)
DijkstraRunToEmptyQueue(s) ==
  IF s.pc = "loop" THEN DijkstraRunToEmptyQueue(DijkstraIterationToEmptyQueue(s))
  ELSE DijkstraFinish(s)

\* C14: the result of the search that stops when the target is dequeued
\* (found or not, path, node ids, distance and breakdowns) is the result of
\* the same search run until the queue is empty.
C14_EarlyStopSameResult ==
  dj.pc = "done" =>
    dj.result =
      DijkstraRunToEmptyQueue(
        DijkstraStart(dj.graph, dj.startNodeId, dj.endNodeId, dj.preferences)).result

\* The search has returned a path while a node that was never expanded and
\* has edges of its own was still waiting in the queue.
C14_Witness ==
  /\ dj.pc = "done"
  /\ dj.result.found
  /\ Len(dj.result.nodeIds) >= 2
  /\ \E k \in 1..Len(dj.queue) :
       /\ dj.queue[k].item \notin dj.visited
       /\ dj.graph.nodes[dj.queue[k].item].edges # <<>>

\* The multiplier of the specification, in tenths, for a road class and a
\* list of preferred types.
ListedAt(types, roadClass) == {r \in 1..Len(types) : types[r] = roadClass}

\* C15: the cost multiplier of an edge is 0.5 + 0.1 * r when its road class
\* (local when it has none) is at 0-based rank r of the preferred types, 1.5
\* when the list is not empty and does not contain the class, and 1.0 when
\* the list is empty or no preferences are given.
C15_PreferenceMultiplier ==
  dj.pc # "idle" =>
    \A c \in RoadClassSet \cup {NoClass} :
      LET edge == [targetNodeId |-> dj.endNodeId, weight |-> 1, roadClass |-> c]
          roadClass == IF c = NoClass THEN "local" ELSE c
          types == dj.preferences.types
          multiplier == getPreferenceWeight(edge, dj.preferences)
      IN /\ (~dj.preferences.given \/ types = <<>>) => multiplier = 10
         /\ (dj.preferences.given /\ types # <<>>
               /\ ListedAt(types, roadClass) = {}) => multiplier = 15
         /\ (dj.preferences.given /\ ListedAt(types, roadClass) # {}) =>
              multiplier = 5 + (SetMin(ListedAt(types, roadClass)) - 1)

\* With the preferred types local, highway the search has returned a path
\* over one highway edge at 0.6 times its weight, in a graph that also has a
\* resource edge, which costs 1.5 times its weight.
C15_Witness ==
  /\ dj.pc = "done"
  /\ dj.preferences.given
  /\ dj.preferences.types = <<"local", "highway">>
  /\ dj.result.found
  /\ Len(dj.edges) = 1
  /\ dj.edges[1].roadClass = "highway"
  /\ dj.edges[1].weight > 0
  /\ dj.distances[dj.endNodeId] = 6 * dj.edges[1].weight
  /\ \E pe \in EdgesOf(dj.graph) :
       /\ pe[2].roadClass = "resource"
       /\ getPreferenceWeight(pe[2], dj.preferences) = 15

\* ------------------------------------------------------------------------
\* Properties of the composer
\* ------------------------------------------------------------------------
Returned == rt.pc = "returned" /\ rt.result.mode # "null"

RECURSIVE SumLegs(_, _, _)
SumLegs(legs, field, i) ==
  IF i > Len(legs) THEN 0 ELSE legs[i][field] + SumLegs(legs, field, i + 1)

RECURSIVE SumLegsByClass(_, _, _, _)
SumLegsByClass(legs, field, roadClass, i) ==
  IF i > Len(legs) THEN 0
  ELSE legs[i][field][roadClass] + SumLegsByClass(legs, field, roadClass, i + 1)

\* The totals of a result are the sums over its legs.
TotalsAreLegSums(result) ==
  /\ result.distance = SumLegs(result.legs, "distance", 1)
  /\ result.travelTime = SumLegs(result.legs, "travelTime", 1)
  /\ \A c \in RoadClassSet :
       /\ result.distanceByRoadClass[c] =
            SumLegsByClass(result.legs, "distanceByRoadClass", c, 1)
       /\ result.travelTimeByRoadClass[c] =
            SumLegsByClass(result.legs, "travelTimeByRoadClass", c, 1)

\* C8 as stated: for every result of calculateRoute, whole-route fallback
\* included, distance, travel time and every road-class bucket equal the
\* sums over the legs.
C8_TotalsAreLegSumsAlways ==
  Returned => TotalsAreLegSums(rt.result)

\* C8 as amended: the totals are the sums over the legs for every result
\* built from a loaded graph with at least one node (routed legs, straight
\* line legs, or both); a whole-route fallback result has no legs at all.
C8_TotalsAreLegSums ==
  Returned =>
    /\ rt.result.mode = "routed" =>
         /\ Len(rt.result.legs) = Len(rt.waypoints) - 1
         /\ TotalsAreLegSums(rt.result)
    /\ rt.result.mode = "fallback" => rt.result.legs = <<>>

\* A result of two legs, one of them routed over an edge of positive weight
\* and the other a straight line.
C8_Witness ==
  /\ Returned
  /\ rt.result.mode = "routed"
  /\ Len(rt.result.legs) = 2
  /\ \E k \in 1..2 : rt.result.segments[k].found /\ rt.result.segments[k].distance > 0
  /\ \E k \in 1..2 : ~rt.result.segments[k].found

BucketsAddUp(r) ==
  /\ SumClasses(r.distanceByRoadClass, 1) = r.distance
  /\ SumClasses(r.travelTimeByRoadClass, 1) = r.travelTime
  /\ DOMAIN r.distanceByRoadClass = RoadClassSet
  /\ DOMAIN r.travelTimeByRoadClass = RoadClassSet

\* C9: in every leg of a result of calculateRoute and in every result that
\* dijkstra returned to it, the six distance buckets add up to the distance
\* and the six travel time buckets add up to the travel time; the edge from
\* n2 to n1, which has no roadClass, is counted as local.
C9_BucketsAddUp ==
  Returned =>
    /\ \A k \in 1..Len(rt.result.legs) : BucketsAddUp(rt.result.legs[k])
    /\ \A k \in 1..Len(rt.result.segments) :
         LET segment == rt.result.segments[k]
         IN segment.found =>
              /\ BucketsAddUp(segment)
              /\ segment.nodeIds = <<"n2", "n1">> =>
                   segment.distanceByRoadClass["local"] = segment.distance

\* A result with a leg over the edge without roadClass and with a
\* straight-line leg.
C9_Witness ==
  /\ Returned
  /\ \E k \in 1..Len(rt.result.segments) :
       /\ rt.result.segments[k].found
       /\ rt.result.segments[k].nodeIds = <<"n2", "n1">>
       /\ rt.result.legs[k].distanceByRoadClass["local"] > 0
  /\ \E k \in 1..Len(rt.result.segments) :
       /\ ~rt.result.segments[k].found
       /\ rt.result.legs[k].distance > 0

NoConsecutiveDuplicates(path) ==
  \A k \in 1..(Len(path) - 1) : path[k] # path[k + 1]

RECURSIVE ConsecutiveDistances(_, _)
ConsecutiveDistances(positions, k) ==
  IF k < 2 THEN 0
  ELSE ConsecutiveDistances(positions, k - 1)
       + haversineDistance(positions[k - 1], positions[k])

\* C11: when the graph is unavailable or has zero nodes, the result for two
\* or more waypoints is the whole-route fallback: the path is the raw
\* waypoints in order, the distance is the sum of the distances between
\* consecutive waypoints, all of it is in the local bucket, and the travel
\* time is that distance at the local speed.
C11_WholeRouteFallback ==
  (Returned /\ (~rt.graph.loaded \/ DOMAIN rt.graph.nodes = {})) =>
    LET d == ConsecutiveDistances(rt.waypoints, Len(rt.waypoints))
        t == d * (TimeScale \div ROAD_SPEEDS["local"])
    IN /\ rt.result.mode = "fallback"
       /\ rt.result.path = rt.waypoints
       /\ rt.result.distance = d
       /\ rt.result.travelTime = t
       /\ \A c \in RoadClassSet :
            /\ rt.result.distanceByRoadClass[c] = (IF c = "local" THEN d ELSE 0)
            /\ rt.result.travelTimeByRoadClass[c] = (IF c = "local" THEN t ELSE 0)

\* A fallback result on a graph without nodes for three waypoints at
\* pairwise different positions, and so with a positive distance on both
\* pairs.
C11_Witness ==
  /\ Returned
  /\ rt.graph.loaded
  /\ DOMAIN rt.graph.nodes = {}
  /\ Len(rt.waypoints) = 3
  /\ haversineDistance(rt.waypoints[1], rt.waypoints[2]) > 0
  /\ haversineDistance(rt.waypoints[2], rt.waypoints[3]) > 0
  /\ rt.result.distanceByRoadClass["local"] > 0

\* C12: in a result built leg by leg, a leg has no path exactly when the
\* end node of its pair is not reachable from the start node; that leg is
\* the straight line between the two nearest-node positions, with their
\* distance as its distance, all of it local; every other leg is what
\* dijkstra returns for its own pair of nodes.
C12_NoPathLegFallsBack ==
  (Returned /\ rt.result.mode = "routed") =>
    \A k \in 1..Len(rt.result.legs) :
      LET startNode == findNearestNode(rt.graph, rt.waypoints[k])
          endNode == findNearestNode(rt.graph, rt.waypoints[k + 1])
          reachable ==
            LeastCosts(rt.graph, startNode.id, rt.preferences, FALSE)[endNode.id]
              < Infinity
          leg == rt.result.legs[k]
          segment == rt.result.segments[k]
          straight == haversineDistance(startNode.position, endNode.position)
      IN /\ segment.found <=> reachable
         /\ leg.fromWaypointIndex = k - 1 /\ leg.toWaypointIndex = k
         /\ ~reachable =>
              /\ leg.distance = straight
              /\ leg.distanceByRoadClass = LocalOnly(straight)
              /\ leg.travelTime = straight * (TimeScale \div ROAD_SPEEDS["local"])
              /\ leg.travelTimeByRoadClass = LocalOnly(leg.travelTime)
              /\ \E j \in 1..(Len(rt.result.path) - 1) :
                   /\ rt.result.path[j] = startNode.position
                   /\ rt.result.path[j + 1] = endNode.position
         /\ reachable =>
              /\ segment = dijkstra(rt.graph, startNode.id, endNode.id, rt.preferences)
              /\ leg.distance = segment.distance
              /\ leg.distanceByRoadClass = segment.distanceByRoadClass
              /\ leg.travelTime = segment.travelTime
              /\ leg.travelTimeByRoadClass = segment.travelTimeByRoadClass

\* A result whose first leg has no path and is a straight line of positive
\* length, and whose second leg is routed over an edge of positive weight.
C12_Witness ==
  /\ Returned
  /\ rt.result.mode = "routed"
  /\ Len(rt.result.legs) = 2
  /\ ~rt.result.segments[1].found
  /\ rt.result.legs[1].distance > 0
  /\ rt.result.segments[2].found
  /\ Len(rt.result.segments[2].nodeIds) = 2
  /\ rt.result.legs[2].distance > 0

\* C16: the surfaces list of the preferences is inert: the result of
\* calculateRoute, with the results dijkstra returned for its legs, is the
\* result for the same types list with an empty surfaces list, and so the
\* same for any two preference values that differ in their surfaces only.
C16_SurfacesInert ==
  (Returned /\ rt.preferences.given /\ rt.preferences.surfaces # <<>>) =>
    calculateRoute(rt.graph, rt.waypoints,
                   [rt.preferences EXCEPT !.surfaces = <<>>]) = rt.result

\* A result for preferences with types and surfaces, with a leg routed over
\* two edges in a graph that has a resource edge of positive weight.
C16_Witness ==
  /\ Returned
  /\ rt.preferences.given
  /\ rt.preferences.types # <<>>
  /\ rt.preferences.surfaces = <<"paved", "rough">>
  /\ \E k \in 1..Len(rt.result.segments) :
       /\ rt.result.segments[k].found
       /\ Len(rt.result.segments[k].nodeIds) = 3
  /\ \E pe \in EdgesOf(rt.graph) :
       pe[2].roadClass = "resource" /\ pe[2].weight > 0

\* The scenario of C18: a line graph, the waypoints on its two end nodes, no
\* preferences.
LineScenario(L) ==
  /\ Returned
  /\ rt.graph = Loaded(LineGraph(L))
  /\ rt.waypoints = <<NodePosition("n0"), NodePosition("n2")>>
  /\ ~rt.preferences.given

\* What C18 says about the result besides the distance of its leg.
LineRoute(L) ==
  /\ rt.result.path = <<NodePosition("n0"), NodePosition("n1"), NodePosition("n2")>>
  /\ rt.result.distance = 2 * L
  /\ Len(rt.result.legs) = 1
  /\ rt.result.legs[1].fromWaypointIndex = 0
  /\ rt.result.legs[1].toWaypointIndex = 1
  /\ \A c \in RoadClassSet :
       rt.result.distanceByRoadClass[c] = (IF c = "local" THEN 2 * L ELSE 0)

\* C18 as stated: on the line graph with edges of length L the route from
\* n0 to n2 has the path n0, n1, n2, distance 2L, local bucket 2L, and one
\* leg from waypoint 0 to waypoint 1 whose distance is L.
C18_LineRouteLegL ==
  \A L \in LineLengths :
    LineScenario(L) => (LineRoute(L) /\ rt.result.legs[1].distance = L)

\* C18 as amended: the same, with the distance of the one leg 2L, the
\* distance of the route.
C18_LineRoute ==
  \A L \in LineLengths :
    LineScenario(L) => (LineRoute(L) /\ rt.result.legs[1].distance = 2 * L)

\* The route of the scenario has been computed on the line graph whose edges
\* are as long as the distance between two neighbouring nodes.
C18_Witness ==
  /\ LineScenario(haversineDistance(NodePosition("n0"), NodePosition("n1")))
  /\ rt.result.mode = "routed"
  /\ rt.result.distance > 0

\* ------------------------------------------------------------------------
\* Properties of a session
\* ------------------------------------------------------------------------
\* Every fetch so far was answered with the same graph file.
GraphFileUnchanged ==
  \A i, j \in 1..Len(loads) :
    (loads[i].pc = "settled" /\ loads[j].pc = "settled") =>
      /\ loads[i].cause \in JsonOutcomes
      /\ loads[i].cause = loads[j].cause

\* C17: calculateRoute is a pure function of the graph file and its inputs:
\* against an unchanged graph file, any two calls with the same waypoints
\* and preferences have the same outcome and the same result, whatever
\* calls of loadGraph, calculateRoute or snapToRoad were made before or
\* between them.
C17_SameInputsSameResult ==
  \A c, d \in CallerIds :
    (/\ GraphFileUnchanged
     /\ calls[c].pc = "done" /\ calls[c].fn = "calculateRoute"
     /\ calls[d].pc = "done" /\ calls[d].fn = "calculateRoute"
     /\ calls[c].waypoints = calls[d].waypoints
     /\ calls[c].preferences = calls[d].preferences) =>
      /\ calls[c].outcome = calls[d].outcome
      /\ calls[c].route = calls[d].route

\* C19: calculateRoute never rejects: every call with two or more
\* waypoints resolves, whatever happened to the graph file, to a result
\* with a path that is not empty.
C19_NeverRejects ==
  \A c \in CallerIds :
    (calls[c].pc = "done" /\ calls[c].fn = "calculateRoute") =>
      /\ calls[c].outcome = "resolved"
      /\ Len(calls[c].route.path) > 0

\* The number of entries of a node in the queue.
QueueEntries(queue, n) == Cardinality({i \in 1..Len(queue) : queue[i].item = n})

\* One iteration of the main loop expands at most the node it dequeues, a
\* node that was not expanded before, and adds an entry to the queue only
\* for a node whose weighted distance it has strictly decreased.
LoopStepIsSound ==
  dj.pc = "loop" =>
    /\ dj.visited \subseteq dj'.visited
    /\ (dj'.distances # dj.distances \/ dj'.previous # dj.previous) =>
         /\ dj.queue # <<>>
         /\ Head(dj.queue).item \notin dj.visited
         /\ dj'.visited = dj.visited \cup {Head(dj.queue).item}
    /\ \A n \in DOMAIN dj.distances :
         /\ dj'.distances[n] <= dj.distances[n]
         /\ IF dj'.distances[n] < dj.distances[n]
              THEN /\ n \notin dj'.visited
                   /\ QueueEntries(dj'.queue, n) > QueueEntries(Tail(dj.queue), n)
                   /\ \E i \in 1..Len(dj'.queue) :
                        dj'.queue[i] = [item |-> n, priority |-> dj'.distances[n]]
              ELSE dj.queue # <<>> =>
                     QueueEntries(dj'.queue, n) = QueueEntries(Tail(dj.queue), n)

\* The predecessor walk from a node ends within the given number of steps.
RECURSIVE WalkEnds(_, _, _)
WalkEnds(previous, current, steps) ==
  IF current = Null \/ current \notin DOMAIN previous THEN TRUE
  ELSE IF steps = 0 THEN FALSE
  ELSE WalkEnds(previous, previous[current].nodeId, steps - 1)

PredecessorWalkEnds ==
  dj.pc \in {"loop", "reconstruct", "done"} =>
    \A n \in DOMAIN dj.previous :
      WalkEnds(dj.previous, n, Cardinality(DOMAIN dj.previous))

\* C26: dijkstra runs to completion on every finite graph, also with
\* zero-weight edges and cycles: each node is expanded at most once, a node
\* is enqueued only on a strict decrease of its weighted distance, the
\* predecessor walk ends and the call returns.
C26_RunsToCompletion ==
  /\ [][LoopStepIsSound]_vars
  /\ []PredecessorWalkEnds
  /\ <>(dj.pc = "done")

\* A call that returned a path on a graph in which the three nodes lie on
\* a cycle of zero-weight edges.
C26_Witness ==
  /\ dj.pc = "done"
  /\ dj.result.found
  /\ dj.startNodeId # dj.endNodeId
  /\ \A n \in NodeIdSet :
       \A i \in 1..Len(dj.graph.nodes[n].edges) : dj.graph.nodes[n].edges[i].weight = 0
  /\ \A n \in NodeIdSet : Len(dj.graph.nodes[n].edges) = 2

\* The value of calculatedRoute that belongs to the waypoints and the
\* preferences the store holds now, written by the latest run.
LatestRoute ==
  IF Len(waypoints) < 2
    THEN [NoRoute EXCEPT !.run = Len(runs)]
    ELSE [waypoints |-> waypoints, roadPreferences |-> roadPreferences,
          run |-> Len(runs)]

\* C28: once no route computation is pending and the computation for the
\* latest waypoints and preferences has resolved, calculatedRoute is the
\* result for the latest waypoints and preferences, null when fewer than two
\* waypoints remain, whatever the order of changes and completions was.
C28_SettledRouteIsLatest ==
  (/\ runs # <<>>
   /\ \A i \in 1..Len(runs) : runs[i].pc # "pending"
   /\ runs[Len(runs)].pc # "rejected") =>
    calculatedRoute = LatestRoute

\* Two computations resolved after a later run had cancelled them, and the
\* result of the latest run, for other waypoints, is in the store.
C28_Witness ==
  \E i, j \in 1..Len(runs) :
    /\ i < j /\ j < Len(runs)
    /\ runs[i].pc = "discarded" /\ runs[j].pc = "discarded"
    /\ runs[Len(runs)].pc = "applied"
    /\ runs[i].waypoints # runs[Len(runs)].waypoints
    /\ calculatedRoute.run = Len(runs)

\* ------------------------------------------------------------------------
\* Properties of the nearest-node locator
\* ------------------------------------------------------------------------
\* C24: findNearestNode returns a node at minimal distance from the
\* position over all nodes of the graph, the first such node in iteration
\* order, and returns null exactly when the graph has no nodes.
C24_NearestNode ==
  nn.pc = "returned" =>
    LET nodes == NodesInOrder(nn.graph, 1)
        d(i) == haversineDistance(nn.position, nodes[i].position)
    IN /\ (nn.result.id = Null) <=> (Len(nodes) = 0)
       /\ Len(nodes) > 0 =>
            \E i \in 1..Len(nodes) :
              /\ nodes[i] = nn.result
              /\ \A j \in 1..Len(nodes) : d(i) <= d(j)
              /\ \A j \in 1..(i - 1) : d(j) > d(i)

\* A call that returned the first of two nodes at the same minimal distance
\* although a later node of the graph is as near.
C24_Witness ==
  /\ nn.pc = "returned"
  /\ nn.result.id = "n0"
  /\ \E n \in DOMAIN nn.graph.nodes :
       /\ n # "n0"
       /\ nn.graph.nodes[n].position # nn.result.position
       /\ haversineDistance(nn.position, nn.graph.nodes[n].position)
            = haversineDistance(nn.position, nn.result.position)

\* ------------------------------------------------------------------------
\* Properties of the graph builder
\* ------------------------------------------------------------------------
\* The road class of an edge; the edges of the builder have none.
EdgeClass(edge) ==
  IF "roadClass" \in DOMAIN edge THEN edge.roadClass ELSE "undefined"

\* The edges from node a to node b that carry the weight, class and road
\* segment of the given edge.
EdgesLike(nodes, a, b, edge) ==
  {i \in 1..Len(nodes[a].edges) :
     LET e == nodes[a].edges[i]
     IN /\ e.targetNodeId = nodes[b].id
        /\ e.weight = edge.weight
        /\ EdgeClass(e) = EdgeClass(edge)
        /\ e.roadSegmentId = edge.roadSegmentId}

\* C20: in every graph that buildGraph returns, every edge from A to B has
\* an edge from B to A with the same weight, the same class and the same
\* roadSegmentId, and the two directions occur the same number of times.
C20_GraphSymmetry ==
  bg.pc = "returned" =>
    \A a \in 1..Len(bg.nodes) : \A i \in 1..Len(bg.nodes[a].edges) :
      LET edge == bg.nodes[a].edges[i]
          b == NodeIndex(bg.nodes, edge.targetNodeId)
      IN /\ EdgesLike(bg.nodes, b, a, edge) # {}
         /\ Cardinality(EdgesLike(bg.nodes, b, a, edge))
              = Cardinality(EdgesLike(bg.nodes, a, b, edge))

\* A returned graph with two road segments between the same two nodes, one
\* of them with an interior vertex.
C20_Witness ==
  /\ bg.pc = "returned"
  /\ bg.segmentCounter = 2
  /\ \E a \in 1..Len(bg.nodes) :
       /\ Len(bg.nodes[a].edges) = 2
       /\ bg.nodes[a].edges[1].targetNodeId = bg.nodes[a].edges[2].targetNodeId
       /\ bg.nodes[a].edges[1].weight # bg.nodes[a].edges[2].weight

\* The polylines of a feature collection that the builder reads, in order.
RECURSIVE PolylinesFrom(_, _)
PolylinesFrom(geojson, f) ==
  IF f > Len(geojson) THEN <<>>
  ELSE coordArrays(geojson[f]) \o PolylinesFrom(geojson, f + 1)

\* The indices of the polylines with two or more vertices.
Traversable(lines) == {i \in 1..Len(lines) : Len(lines[i]) >= 2}

\* The keys of the endpoints of the traversable polylines.
EndpointKeys(lines) ==
  {coordKey(lines[i][1][1], lines[i][1][2]) : i \in Traversable(lines)}
    \cup {coordKey(lines[i][Len(lines[i])][1], lines[i][Len(lines[i])][2]) :
            i \in Traversable(lines)}

\* C21: buildGraph creates exactly one node for every distinct endpoint key
\* of the polylines with two or more vertices (also for a key touched once)
\* and no node for an interior vertex; two endpoints with the same key map
\* to the same node.
C21_OneNodePerEndpointKey ==
  bg.pc = "returned" =>
    LET lines == PolylinesFrom(bg.geojson, 1)
        keys == EndpointKeys(lines)
    IN /\ Len(bg.nodes) = Cardinality(keys)
       /\ Len(bg.coordToNode) = Cardinality(keys)
       /\ \A k \in keys :
            /\ MapHas(bg.coordToNode, k)
            /\ \E n \in 1..Len(bg.nodes) :
                 /\ bg.nodes[n].id = MapGet(bg.coordToNode, k, UndefinedNodeId)
                 /\ bg.nodes[n].position
                      = [lat |-> ParseNumber(k[2]), lng |-> ParseNumber(k[1])]
       /\ \A m, n \in 1..Len(bg.coordToNode) :
            bg.coordToNode[m].value = bg.coordToNode[n].value => m = n

\* A returned graph of three nodes: one key is touched by one polyline
\* only, another is shared by two endpoints with different coordinates, and
\* one polyline has an interior vertex.
C21_Witness ==
  /\ bg.pc = "returned"
  /\ Len(bg.nodes) = 3
  /\ \E i \in 1..Len(bg.endpointCounts) : bg.endpointCounts[i].value = 1
  /\ LET lines == PolylinesFrom(bg.geojson, 1)
     IN /\ \E i \in Traversable(lines) : Len(lines[i]) = 3
        /\ \E i, j \in Traversable(lines) :
             /\ lines[i][Len(lines[i])] # lines[j][1]
             /\ coordKey(lines[i][Len(lines[i])][1], lines[i][Len(lines[i])][2])
                  = coordKey(lines[j][1][1], lines[j][1][2])

\* buildGraph as a function of its input: the three passes in sequence.
RECURSIVE FirstPassFrom(_, _, _)
FirstPassFrom(endpointCounts, geojson, f) ==
  IF f > Len(geojson) THEN endpointCounts
  ELSE FirstPassFrom(CountEndpointsOf(endpointCounts, coordArrays(geojson[f]), 1),
                     geojson, f + 1)

RECURSIVE ThirdPassFrom(_, _)
ThirdPassFrom(b, f) ==
  IF f > Len(b.geojson) THEN b
  ELSE ThirdPassFrom(CreateEdgesOf(b, coordArrays(b.geojson[f]), 1), f + 1)

BuiltGraph(geojson) ==
  LET created == CreateNodes(FirstPassFrom(<<>>, geojson, 1), 1,
                   [nodeIdCounter |-> 0, coordToNode |-> <<>>, nodes |-> <<>>])
  IN ThirdPassFrom([NewBuild(geojson) EXCEPT
                      !.nodeIdCounter = created.nodeIdCounter,
                      !.coordToNode = created.coordToNode,
                      !.nodes = created.nodes], 1)

\* The edges of a graph, each with the positions it joins.
EdgesByPosition(nodes) ==
  {[from |-> nodes[a].position,
    to |-> nodes[NodeIndex(nodes, nodes[a].edges[i].targetNodeId)].position,
    weight |-> nodes[a].edges[i].weight,
    roadSegmentId |-> nodes[a].edges[i].roadSegmentId] :
     <<a, i>> \in {<<a, i>> \in (1..Len(nodes)) \X (1..(2 * Len(nodes) * Len(nodes) + 8)) :
                      i <= Len(nodes[a].edges)}}

\* A polyline whose first and last vertex round to the same key.
ClosedPolyline(coords) ==
  /\ Len(coords) >= 1
  /\ coordKey(coords[1][1], coords[1][2])
       = coordKey(coords[Len(coords)][1], coords[Len(coords)][2])

RECURSIVE WithoutClosed(_, _)
WithoutClosed(lines, i) ==
  IF i > Len(lines) THEN <<>>
  ELSE (IF ClosedPolyline(lines[i]) THEN <<>> ELSE <<lines[i]>>)
         \o WithoutClosed(lines, i + 1)

\* C22: a polyline whose first and last vertex round to the same endpoint
\* key contributes no edge to the built graph, and the edges of the other
\* polylines are those of the graph built without it.
C22_LoopExclusion ==
  bg.pc = "returned" =>
    LET lines == PolylinesFrom(bg.geojson, 1)
        others == WithoutClosed(lines, 1)
    IN /\ bg.edgeCount = 2 * Cardinality(Traversable(others))
       /\ EdgesByPosition(bg.nodes)
            = EdgesByPosition(BuiltGraph(<<MultiLineString(others)>>).nodes)

\* A returned graph with edges, built from a collection with a polyline
\* whose two endpoints differ but round to the same key.
C22_Witness ==
  /\ bg.pc = "returned"
  /\ bg.edgeCount = 2
  /\ LET lines == PolylinesFrom(bg.geojson, 1)
     IN \E i \in Traversable(lines) :
          ClosedPolyline(lines[i]) /\ lines[i][1] # lines[i][Len(lines[i])]

\* C23: each of the two edges that buildGraph emits for a polyline carries
\* the road class of the polyline: every edge of a built graph has a
\* roadClass that is one of the six values of the enumeration.
C23_EdgesCarryRoadClass ==
  bg.pc = "returned" =>
    \A a \in 1..Len(bg.nodes) : \A i \in 1..Len(bg.nodes[a].edges) :
      EdgeClass(bg.nodes[a].edges[i]) \in RoadClassSet

\* The polylines with two or more vertices of the features with a
\* LineString or MultiLineString geometry.
RECURSIVE SupportedLinesFrom(_, _)
SupportedLinesFrom(geojson, f) ==
  IF f > Len(geojson) THEN <<>>
  ELSE (IF geojson[f].type \in {"LineString", "MultiLineString"}
          THEN SelectSeq(geojson[f].lines, LAMBDA coords : Len(coords) >= 2)
          ELSE <<>>)
         \o SupportedLinesFrom(geojson, f + 1)

RECURSIVE CountEdges(_, _)
CountEdges(nodes, a) ==
  IF a > Len(nodes) THEN 0 ELSE Len(nodes[a].edges) + CountEdges(nodes, a + 1)

\* C27: buildGraph emits no partial or invalid edge: the target of every
\* edge is a node of the graph other than the owner of the edge, every
\* weight is at least 0, polylines with fewer than two vertices and features
\* of other geometry types contribute no node and no edge, and
\* metadata.edgeCount is the number of edge objects over all nodes.
C27_NoInvalidEdges ==
  bg.pc = "returned" =>
    /\ \A a \in 1..Len(bg.nodes) : \A i \in 1..Len(bg.nodes[a].edges) :
         LET edge == bg.nodes[a].edges[i]
         IN /\ \E b \in 1..Len(bg.nodes) : bg.nodes[b].id = edge.targetNodeId
            /\ edge.targetNodeId # bg.nodes[a].id
            /\ edge.weight >= 0
    /\ bg.nodes
         = BuiltGraph(<<MultiLineString(SupportedLinesFrom(bg.geojson, 1))>>).nodes
    /\ bg.metadata.edgeCount = CountEdges(bg.nodes, 1)
    /\ bg.metadata.nodeCount = Len(bg.nodes)

\* A returned graph with edges, built from a collection with a polygon and
\* a polyline of one vertex.
C27_Witness ==
  /\ bg.pc = "returned"
  /\ bg.metadata.edgeCount = 2
  /\ \E f \in 1..Len(bg.geojson) : bg.geojson[f].type = "Polygon"
  /\ \E f \in 1..Len(bg.geojson) :
       /\ bg.geojson[f].type = "MultiLineString"
       /\ \E l \in 1..Len(bg.geojson[f].lines) : Len(bg.geojson[f].lines[l]) = 1

InitLoader ==
  /\ graphCache = Null
  /\ graphLoadPromise = 0
  /\ loads = <<>>
  /\ fetchCount = 0
  /\ callers = [c \in CallerIds |-> IdleCaller]
  /\ dj = IdleSolver
  /\ rt = IdleComposer
  /\ waypoints = <<>>
  /\ roadPreferences = "resourceFirst"
  /\ calculatedRoute = NoRoute
  /\ routePath = NoRoute
  /\ segmentsRef = NoRoute
  /\ runs = <<>>
  /\ calls = [c \in CallerIds |-> IdleCall]
  /\ bg = IdleBuilder
  /\ nn = IdleLocator
  /\ st = InitialStore
  /\ url = NoURL
  /\ opened = UnopenedPage

SpecLoader == InitLoader /\ [][LoaderNext]_vars

InitDijkstra ==
  /\ graphCache = Null
  /\ graphLoadPromise = 0
  /\ loads = <<>>
  /\ fetchCount = 0
  /\ callers = [c \in CallerIds |-> IdleCaller]
  /\ \E graph \in SolverGraphs, startNodeId \in NodeIdSet, endNodeId \in NodeIdSet,
        preferences \in SolverPreferences :
       dj = DijkstraStart(graph, startNodeId, endNodeId, preferences)
  /\ rt = IdleComposer
  /\ waypoints = <<>>
  /\ roadPreferences = "resourceFirst"
  /\ calculatedRoute = NoRoute
  /\ routePath = NoRoute
  /\ segmentsRef = NoRoute
  /\ runs = <<>>
  /\ calls = [c \in CallerIds |-> IdleCall]
  /\ bg = IdleBuilder
  /\ nn = IdleLocator
  /\ st = InitialStore
  /\ url = NoURL
  /\ opened = UnopenedPage

SpecDijkstra == InitDijkstra /\ [][SolverNext]_vars

\* The preferences of the calls that are followed to their return.
CompletionPreferences ==
  {NoPreferences, [given |-> TRUE, types |-> <<"local", "highway">>, surfaces |-> <<>>]}

InitDijkstraFair ==
  /\ graphCache = Null
  /\ graphLoadPromise = 0
  /\ loads = <<>>
  /\ fetchCount = 0
  /\ callers = [c \in CallerIds |-> IdleCaller]
  /\ \E graph \in SolverGraphs, startNodeId \in NodeIdSet, endNodeId \in NodeIdSet,
        preferences \in CompletionPreferences :
       dj = DijkstraStart(graph, startNodeId, endNodeId, preferences)
  /\ rt = IdleComposer
  /\ waypoints = <<>>
  /\ roadPreferences = "resourceFirst"
  /\ calculatedRoute = NoRoute
  /\ routePath = NoRoute
  /\ segmentsRef = NoRoute
  /\ runs = <<>>
  /\ calls = [c \in CallerIds |-> IdleCall]
  /\ bg = IdleBuilder
  /\ nn = IdleLocator
  /\ st = InitialStore
  /\ url = NoURL
  /\ opened = UnopenedPage

\* dijkstra is synchronous code: once called, it keeps taking steps.
SpecDijkstraFair == InitDijkstraFair /\ [][SolverNext]_vars /\ WF_vars(SolverNext)

InitRoute ==
  /\ graphCache = Null
  /\ graphLoadPromise = 0
  /\ loads = <<>>
  /\ fetchCount = 0
  /\ callers = [c \in CallerIds |-> IdleCaller]
  /\ dj = IdleSolver
  /\ \E graph \in RouteGraphs, positions \in WaypointLists,
        preferences \in RoutePreferences :
       rt = [pc |-> "called", graph |-> graph, waypoints |-> positions,
             preferences |-> preferences, result |-> NullRoute]
  /\ waypoints = <<>>
  /\ roadPreferences = "resourceFirst"
  /\ calculatedRoute = NoRoute
  /\ routePath = NoRoute
  /\ segmentsRef = NoRoute
  /\ runs = <<>>
  /\ calls = [c \in CallerIds |-> IdleCall]
  /\ bg = IdleBuilder
  /\ nn = IdleLocator
  /\ st = InitialStore
  /\ url = NoURL
  /\ opened = UnopenedPage

SpecRoute == InitRoute /\ [][ComposerNext]_vars

InitPlan ==
  /\ graphCache = Null
  /\ graphLoadPromise = 0
  /\ loads = <<>>
  /\ fetchCount = 0
  /\ callers = [c \in CallerIds |-> IdleCaller]
  /\ dj = IdleSolver
  /\ \E graph \in PlanGraphs, positions \in PlanWaypointLists,
        preferences \in PlanPreferences :
       rt = [pc |-> "called", graph |-> graph, waypoints |-> positions,
             preferences |-> preferences, result |-> NullRoute]
  /\ waypoints = <<>>
  /\ roadPreferences = "resourceFirst"
  /\ calculatedRoute = NoRoute
  /\ routePath = NoRoute
  /\ segmentsRef = NoRoute
  /\ runs = <<>>
  /\ calls = [c \in CallerIds |-> IdleCall]
  /\ bg = IdleBuilder
  /\ nn = IdleLocator
  /\ st = InitialStore
  /\ url = NoURL
  /\ opened = UnopenedPage

SpecPlan == InitPlan /\ [][ComposerNext]_vars


InitSession ==
  /\ graphCache = Null
  /\ graphLoadPromise = 0
  /\ loads = <<>>
  /\ fetchCount = 0
  /\ callers = [c \in CallerIds |-> IdleCaller]
  /\ dj = IdleSolver
  /\ rt = IdleComposer
  /\ waypoints = <<>>
  /\ roadPreferences = "resourceFirst"
  /\ calculatedRoute = NoRoute
  /\ routePath = NoRoute
  /\ segmentsRef = NoRoute
  /\ runs = <<>>
  /\ calls = [c \in CallerIds |-> IdleCall]
  /\ bg = IdleBuilder
  /\ nn = IdleLocator
  /\ st = InitialStore
  /\ url = NoURL
  /\ opened = UnopenedPage

SpecSession == InitSession /\ [][SessionNext]_vars

InitBuild ==
  /\ graphCache = Null
  /\ graphLoadPromise = 0
  /\ loads = <<>>
  /\ fetchCount = 0
  /\ callers = [c \in CallerIds |-> IdleCaller]
  /\ dj = IdleSolver
  /\ rt = IdleComposer
  /\ waypoints = <<>>
  /\ roadPreferences = "resourceFirst"
  /\ calculatedRoute = NoRoute
  /\ routePath = NoRoute
  /\ segmentsRef = NoRoute
  /\ runs = <<>>
  /\ calls = [c \in CallerIds |-> IdleCall]
  /\ nn = IdleLocator
  /\ st = InitialStore
  /\ url = NoURL
  /\ opened = UnopenedPage
  /\ \E geojson \in FeatureCollections : bg = NewBuild(geojson)

SpecBuild == InitBuild /\ [][BuilderNext]_vars

InitNearest ==
  /\ graphCache = Null
  /\ graphLoadPromise = 0
  /\ loads = <<>>
  /\ fetchCount = 0
  /\ callers = [c \in CallerIds |-> IdleCaller]
  /\ dj = IdleSolver
  /\ rt = IdleComposer
  /\ waypoints = <<>>
  /\ roadPreferences = "resourceFirst"
  /\ calculatedRoute = NoRoute
  /\ routePath = NoRoute
  /\ segmentsRef = NoRoute
  /\ runs = <<>>
  /\ calls = [c \in CallerIds |-> IdleCall]
  /\ bg = IdleBuilder
  /\ st = InitialStore
  /\ url = NoURL
  /\ opened = UnopenedPage
  /\ \E graph \in LocatorGraphs, position \in LocatorPositions :
       nn = NewLocate(graph, position)

SpecNearest == InitNearest /\ [][LocatorNext]_vars

\* The state after RouteLayer has mounted on the initial store: no
\* waypoints, the default preferences, and the first run of the effect.
InitLayer ==
  /\ graphCache = Null
  /\ graphLoadPromise = 0
  /\ loads = <<>>
  /\ fetchCount = 0
  /\ callers = [c \in CallerIds |-> IdleCaller]
  /\ dj = IdleSolver
  /\ rt = IdleComposer
  /\ waypoints = <<>>
  /\ roadPreferences = "resourceFirst"
  /\ calculatedRoute = [NoRoute EXCEPT !.run = 1]
  /\ routePath = [NoRoute EXCEPT !.run = 1]
  /\ segmentsRef = [NoRoute EXCEPT !.run = 1]
  /\ runs = <<[waypoints |-> <<>>, roadPreferences |-> "resourceFirst",
               cancelled |-> FALSE, pc |-> "cleared"]>>
  /\ calls = [c \in CallerIds |-> IdleCall]
  /\ bg = IdleBuilder
  /\ nn = IdleLocator
  /\ st = InitialStore
  /\ url = NoURL
  /\ opened = UnopenedPage

SpecLayer == InitLayer /\ [][LayerNext]_vars

\* ------------------------------------------------------------------------
\* Waypoint identifiers
\* ------------------------------------------------------------------------
WaypointIds(s) == {s.waypoints[i].id : i \in 1..Len(s.waypoints)}

\* The ids of the list are pairwise distinct and were all issued by the
\* counter.
IdsDistinctAndIssued ==
  /\ \A i, j \in 1..Len(st.waypoints) :
       i # j => st.waypoints[i].id # st.waypoints[j].id
  /\ \A id \in WaypointIds(st) : id[2] \in 1..st.waypointIdCounter

\* removeWaypoint takes exactly the named id out of the id set;
\* updateWaypoint and reorderWaypoints leave the id set as it is.
EditsKeepOtherIds ==
  /\ \A id \in IssuedIds :
       WaypointIds(removeWaypoint(st, id)) = WaypointIds(st) \ {id}
  /\ \A id \in IssuedIds, position \in StorePositions :
       WaypointIds(updateWaypoint(st, id, position)) = WaypointIds(st)
  /\ \A fromIndex, toIndex \in 0..(Len(st.waypoints) - 1) :
       WaypointIds(reorderWaypoints(st, fromIndex, toIndex)) = WaypointIds(st)

\* The counter never goes back, and an id that enters the list is above
\* every id issued before the step.
IdStepIsFresh ==
  /\ st'.waypointIdCounter >= st.waypointIdCounter
  /\ \A id \in WaypointIds(st') \ WaypointIds(st) :
       id[2] > st.waypointIdCounter

\* C29: within one page session the waypoint ids are pairwise distinct and
\* never reused, also after clearRoute, because the counter behind
\* generateWaypointId only grows; removeWaypoint, updateWaypoint and
\* reorderWaypoints change the id set only by removing the named id.
C29_WaypointIdsUnique ==
  /\ [](IdsDistinctAndIssued /\ EditsKeepOtherIds)
  /\ [][IdStepIsFresh]_vars

\* A list rebuilt after clearRoute and then reordered: its ids start above 1
\* and are no longer ascending.
C29_Witness ==
  /\ Len(st.waypoints) = 2
  /\ st.waypoints[1].id[2] > st.waypoints[2].id[2]
  /\ st.waypoints[2].id[2] > 1
  /\ st.waypoints[1].type = "anchor"

InitWaypoints ==
  /\ graphCache = Null
  /\ graphLoadPromise = 0
  /\ loads = <<>>
  /\ fetchCount = 0
  /\ callers = [c \in CallerIds |-> IdleCaller]
  /\ dj = IdleSolver
  /\ rt = IdleComposer
  /\ waypoints = <<>>
  /\ roadPreferences = "resourceFirst"
  /\ calculatedRoute = NoRoute
  /\ routePath = NoRoute
  /\ segmentsRef = NoRoute
  /\ runs = <<>>
  /\ calls = [c \in CallerIds |-> IdleCall]
  /\ bg = IdleBuilder
  /\ nn = IdleLocator
  /\ st = InitialStore
  /\ url = NoURL
  /\ opened = UnopenedPage

SpecWaypoints == InitWaypoints /\ [][WaypointsNext]_vars

\* ------------------------------------------------------------------------
\* Preference lists
\* ------------------------------------------------------------------------
\* C30: after toggleTypePreference, resetPreferences and the URL restore,
\* roadPreferences.types has no duplicates, so every listed class has a rank
\* of at most 5 and a multiplier of at most 1.0, below the 1.5 of the
\* classes that are not listed.
C30_PreferenceTypesDistinct ==
  LET types == st.roadPreferences.types
      preferences == [given |-> TRUE, types |-> types,
                      surfaces |-> st.roadPreferences.surfaces]
  IN /\ \A i, j \in 1..Len(types) : i # j => types[i] # types[j]
     /\ \A i \in 1..Len(types) :
          /\ indexOf(types, types[i]) <= 5
          /\ getPreferenceWeight([roadClass |-> types[i]], preferences) <= WeightScale

InitPreferences ==
  /\ graphCache = Null
  /\ graphLoadPromise = 0
  /\ loads = <<>>
  /\ fetchCount = 0
  /\ callers = [c \in CallerIds |-> IdleCaller]
  /\ dj = IdleSolver
  /\ rt = IdleComposer
  /\ waypoints = <<>>
  /\ roadPreferences = "resourceFirst"
  /\ calculatedRoute = NoRoute
  /\ routePath = NoRoute
  /\ segmentsRef = NoRoute
  /\ runs = <<>>
  /\ calls = [c \in CallerIds |-> IdleCall]
  /\ bg = IdleBuilder
  /\ nn = IdleLocator
  /\ st = InitialStore
  /\ url = NoURL
  /\ opened = UnopenedPage

SpecPreferences == InitPreferences /\ [][PreferencesNext]_vars

\* ------------------------------------------------------------------------
\* Share round trip
\* ------------------------------------------------------------------------
\* A position as it reads at 5 decimals, in units of 0.00001 degrees.
AtFiveDecimals(position) ==
  [lat |-> ParseNumber(ToFixedString(position.lat)),
   lng |-> ParseNumber(ToFixedString(position.lng))]

SameWaypointSequence(restored, shared) ==
  /\ Len(restored) = Len(shared)
  /\ \A i \in 1..Len(shared) :
       /\ restored[i].type = shared[i].type
       /\ restored[i].position = AtFiveDecimals(shared[i].position)

\* C25: a fresh store restored from the URL that buildShareURL makes of a
\* store has the same waypoint sequence (order, type, position at 5
\* decimals), the same road filters and the same road preferences, also
\* when the preference lists are empty or the defaults.
C25_ShareRoundTrip ==
  opened.isInitialized =>
    /\ SameWaypointSequence(opened.store.waypoints, st.waypoints)
    /\ opened.store.roadFilters = st.roadFilters
    /\ opened.store.roadPreferences = st.roadPreferences

InitShare ==
  /\ graphCache = Null
  /\ graphLoadPromise = 0
  /\ loads = <<>>
  /\ fetchCount = 0
  /\ callers = [c \in CallerIds |-> IdleCaller]
  /\ dj = IdleSolver
  /\ rt = IdleComposer
  /\ waypoints = <<>>
  /\ roadPreferences = "resourceFirst"
  /\ calculatedRoute = NoRoute
  /\ routePath = NoRoute
  /\ segmentsRef = NoRoute
  /\ runs = <<>>
  /\ calls = [c \in CallerIds |-> IdleCall]
  /\ bg = IdleBuilder
  /\ nn = IdleLocator
  /\ url = NoURL
  /\ opened = UnopenedPage
  /\ st \in ShareStores

SpecShare == InitShare /\ [][ShareNext]_vars

====
